---- MODULE Spec2Model ----
(***************************************************************************)
(* GDALDatasetPool / GDALProxyPoolDataset (gdalproxypool.cpp).             *)
(*                                                                         *)
(* The pool is a singleton holding an intrusive doubly-linked LRU list of  *)
(* cache entries.  Threads enter it through the proxy dataset methods      *)
(* RefUnderlyingDataset / UnrefUnderlyingDataset and the proxy destructor  *)
(* (CloseDatasetIfZeroRefCount).  Every section of code that runs with the *)
(* global mutex held is one action; GDALDataset::Open runs with the mutex  *)
(* released (an "open" frame on the thread's stack), GDALClose runs with   *)
(* the mutex still held by the calling thread (a "close" frame), and the   *)
(* thread may re-enter the pool from both.                                 *)
(***************************************************************************)
EXTENDS Integers, Sequences, FiniteSets, TLC

(* ------------------------------ bounds --------------------------------- *)

\* value of the GDAL_MAX_DATASET_POOL_SIZE configuration option
ConfigPoolSize == 2
\* value of the GDAL_MAX_DATASET_POOL_RAM_USAGE configuration option (bytes)
ConfigMaxRAM == 100
\* number of backend datasets that exist at the same time
MaxOpens == 2
\* depth of a thread's stack of pool calls (a call made inside Open or Close nests)
MaxDepth == 2
\* number of acquisitions one thread keeps outstanding
MaxHeld == 1
\* number of releases without acquisition made by clients (SpecUnpaired)
MaxUnpaired == 1
\* depth of the stack of a thread that runs whole proxy operations (SpecBand):
\* an operation and its pool call, nested twice inside GDALDataset::Open
MaxOpDepth == 6

(* --------------------------- program constants -------------------------- *)

MinPoolSize == 2
MaxPoolSize == 1000

GDALGetMaxDatasetPoolSize(nSize) ==
    IF nSize < MinPoolSize THEN MinPoolSize
    ELSE IF nSize > MaxPoolSize THEN MaxPoolSize
    ELSE nSize

\* GDALDatasetPool::maxSize and nMaxRAMUsage, set once by the constructor
maxSize == GDALGetMaxDatasetPoolSize(ConfigPoolSize)
nMaxRAMUsage == ConfigMaxRAM

(* ------------------------------ universe -------------------------------- *)

Threads == {1, 2}
\* responsible PIDs: by default a thread's own id
PIDs == Threads
Slots == 1 .. maxSize
Handles == 1 .. MaxOpens
\* nullptr, for entry pointers and dataset handles
NULL == 0
\* a char* is <<>> (nullptr) or <<s>>
NullStr == << >>
CPLStrdup(s) == << s >>

\* what GetEstimatedRAMUsage() may report for an opened dataset: "A" takes 60
\* bytes, "B" takes 60 or 120 bytes (the file is rewritten between two opens),
\* the estimate of "C" is unknown (-1)
GetEstimatedRAMUsage(pszFileName) ==
    IF pszFileName = "C" THEN {-1}
    ELSE IF pszFileName = "B" THEN {60, 120}
    ELSE {60}

\* a GDALProxyPoolDataset: description, open options, shared flag, owner and
\* the responsible PID of the thread that created it
Proxy(pszFileName, bShared, pszOwner, responsiblePID) ==
    [ pszFileName |-> pszFileName, papszOpenOptions |-> << >>,
      bShared |-> bShared, pszOwner |-> pszOwner,
      responsiblePID |-> responsiblePID ]

\* the proxies of the run.  "A" and "B" are plain rasters.  "C" is a dataset
\* made of sources (a VRT): its opener builds the proxies Sources("C"), tagged
\* with their owner, uses them while it runs, and its close flushes and
\* destroys them.  "C" names itself among its sources.
Proxies ==
    { Proxy("A", TRUE, NullStr, 1), Proxy("A", TRUE, CPLStrdup("o1"), 1),
      Proxy("A", TRUE, NullStr, 2), Proxy("A", FALSE, NullStr, 1),
      Proxy("B", FALSE, NullStr, 2), Proxy("C", TRUE, NullStr, 1) }

Sources(pszFileName) ==
    IF pszFileName = "C"
    THEN { Proxy("A", TRUE, CPLStrdup("o1"), 1), Proxy("C", TRUE, NullStr, 1) }
    ELSE {}

\* the arguments of one RefUnderlyingDataset call: the proxy and bForceOpen
Request(p, bForceOpen) ==
    [ pszFileName |-> p.pszFileName, papszOpenOptions |-> p.papszOpenOptions,
      bShared |-> p.bShared, bForceOpen |-> bForceOpen, pszOwner |-> p.pszOwner,
      responsiblePID |-> p.responsiblePID ]

Requests == { Request(p, b) : p \in Proxies, b \in BOOLEAN }

\* the bands made by a proxy band: GDALProxyPoolOverviewRasterBand and
\* GDALProxyPoolMaskBand
ChildBands == {"overview", "mask"}

VARIABLES
    pool,     \* the GDALDatasetPool singleton
    stack,    \* per thread: the pool calls in progress, innermost last
    curPID,   \* per thread: GDALGetResponsiblePIDForCurrentThread()
    held,     \* per thread: per entry, acquisitions not yet released
    ds,       \* per backend handle: its life
    nRefCountUnderlyingMainRasterBand,
              \* per proxy, per overview or mask band of its band: the counter
    singleton,
              \* the static GDALDatasetPool *singleton (alive: not nullptr)
              \* and the refCount of the pool
    refCountOfDisabledRefCount,
              \* per thread: the thread_local counter
    members   \* per proxy: the members of the GDALProxyPoolDataset and of
              \* its band that the operations below read and write

vars == << pool, stack, curPID, held, ds, nRefCountUnderlyingMainRasterBand,
                    singleton, refCountOfDisabledRefCount, members >>

(* --------------------------- cache entries ------------------------------ *)

\* CPLCalloc(1, sizeof(GDALProxyPoolCacheEntry))
ZeroEntry ==
    [ responsiblePID |-> 0, pszFileNameAndOpenOptions |-> NullStr,
      pszOwner |-> NullStr, poDS |-> NULL, nRAMUsage |-> 0, refCount |-> 0,
      prev |-> NULL, next |-> NULL ]

RECURSIVE JoinOptions(_, _)
JoinOptions(s, opts) ==
    IF opts = << >> THEN s
    ELSE JoinOptions(s \o "||" \o Head(opts), Tail(opts))

GetFilenameAndOpenOptions(pszFileName, papszOpenOptions) ==
    JoinOptions(pszFileName, papszOpenOptions)

\* the entries reached from cur by following next, in order
RECURSIVE Walk(_, _, _)
Walk(P, cur, fuel) ==
    IF cur = NULL \/ fuel = 0 THEN << >>
    ELSE << cur >> \o Walk(P, P.entries[cur].next, fuel - 1)

ListOrder(P) == Walk(P, P.firstEntry, maxSize + 1)

\* last element of a sequence of entries that is in set S, or NULL
LastSuch(seq, S) ==
    LET idx == { i \in 1 .. Len(seq) : seq[i] \in S }
    IN IF idx = {} THEN NULL
       ELSE seq[CHOOSE i \in idx : \A j \in idx : j <= i]

\* first element of a sequence of entries that is in set S, or NULL
FirstSuch(seq, S) ==
    LET idx == { i \in 1 .. Len(seq) : seq[i] \in S }
    IN IF idx = {} THEN NULL
       ELSE seq[CHOOSE i \in idx : \A j \in idx : i <= j]

(* ------------------------- _RefDataset, pieces -------------------------- *)

SameOwner(a, b) ==
    \/ a = NullStr /\ b = NullStr
    \/ a # NullStr /\ b # NullStr /\ a[1] = b[1]

\* faulty variants of the lookup test, for the sensitivity of C4, C8 and C9:
\* one that forgets the "loading in progress" sentinel, one that forgets the
\* owner, one that lets a request that is not shared take a pinned entry
MatchesInFlight(P, cur, r, responsiblePID) ==
    LET E == P.entries[cur]
        osFilenameAndOO ==
            GetFilenameAndOpenOptions(r.pszFileName, r.papszOpenOptions)
    IN /\ E.pszFileNameAndOpenOptions # NullStr
       /\ osFilenameAndOO = E.pszFileNameAndOpenOptions[1]
       /\ \/ /\ r.bShared
             /\ E.responsiblePID = responsiblePID
             /\ SameOwner(E.pszOwner, r.pszOwner)
          \/ /\ ~r.bShared
             /\ E.refCount = 0

MatchesAnyOwner(P, cur, r, responsiblePID) ==
    LET E == P.entries[cur]
        osFilenameAndOO ==
            GetFilenameAndOpenOptions(r.pszFileName, r.papszOpenOptions)
    IN /\ E.refCount >= 0
       /\ E.pszFileNameAndOpenOptions # NullStr
       /\ osFilenameAndOO = E.pszFileNameAndOpenOptions[1]
       /\ \/ /\ r.bShared
             /\ E.responsiblePID = responsiblePID
          \/ /\ ~r.bShared
             /\ E.refCount = 0

MatchesPinned(P, cur, r, responsiblePID) ==
    LET E == P.entries[cur]
        osFilenameAndOO ==
            GetFilenameAndOpenOptions(r.pszFileName, r.papszOpenOptions)
    IN /\ E.refCount >= 0
       /\ E.pszFileNameAndOpenOptions # NullStr
       /\ osFilenameAndOO = E.pszFileNameAndOpenOptions[1]
       /\ \/ /\ r.bShared
             /\ E.responsiblePID = responsiblePID
             /\ SameOwner(E.pszOwner, r.pszOwner)
          \/ ~r.bShared

\* the test of the lookup loop of _RefDataset
Matches(P, cur, r, responsiblePID) ==
    LET E == P.entries[cur]
        osFilenameAndOO ==
            GetFilenameAndOpenOptions(r.pszFileName, r.papszOpenOptions)
    IN /\ E.refCount >= 0
       /\ E.pszFileNameAndOpenOptions # NullStr
       /\ osFilenameAndOO = E.pszFileNameAndOpenOptions[1]
       /\ \/ /\ r.bShared
             /\ E.responsiblePID = responsiblePID
             /\ SameOwner(E.pszOwner, r.pszOwner)
          \/ /\ ~r.bShared
             /\ E.refCount = 0

\* faulty variant for the sensitivity of C32: the entry behind cur keeps its
\* prev
MoveToBeginHalfUnlinked(P, cur) ==
    LET n == P.entries[cur].next
        p == P.entries[cur].prev
        last1 == IF n # NULL THEN P.lastEntry ELSE p
        E2 == [P.entries EXCEPT ![p].next = n]
        E3 == [E2 EXCEPT ![cur].prev = NULL]
        E4 == [E3 EXCEPT ![P.firstEntry].prev = cur]
        E5 == [E4 EXCEPT ![cur].next = P.firstEntry]
    IN [P EXCEPT !.entries = E5, !.lastEntry = last1, !.firstEntry = cur]

\* "Move to begin"
MoveToBegin(P, cur) ==
    LET n == P.entries[cur].next
        p == P.entries[cur].prev
        E1 == IF n # NULL THEN [P.entries EXCEPT ![n].prev = p] ELSE P.entries
        last1 == IF n # NULL THEN P.lastEntry ELSE p
        E2 == [E1 EXCEPT ![p].next = n]
        E3 == [E2 EXCEPT ![cur].prev = NULL]
        E4 == [E3 EXCEPT ![P.firstEntry].prev = cur]
        E5 == [E4 EXCEPT ![cur].next = P.firstEntry]
    IN [P EXCEPT !.entries = E5, !.lastEntry = last1, !.firstEntry = cur]

\* faulty variants of a lookup hit, for the sensitivity of C1 and C5: one
\* that takes no reference, one that does not promote the entry
HitNoReference(P, cur) ==
    IF cur # P.firstEntry THEN MoveToBegin(P, cur) ELSE P

HitNoPromotion(P, cur) ==
    [P EXCEPT !.entries[cur].refCount = @ + 1]

\* a lookup hit: promote and take a reference
Hit(P, cur) ==
    LET P1 == IF cur # P.firstEntry THEN MoveToBegin(P, cur) ELSE P
    IN [P1 EXCEPT !.entries[cur].refCount = @ + 1]

\* faulty variants of the walk, for the sensitivity of C2, C6 and C7: one that
\* takes pinned entries too, one that stops at the first entry it finds, one
\* that finds none
EvictCandidatePinned(P, evictEntryWithOpenedDataset) ==
    LastSuch(ListOrder(P),
             { cur \in Slots : /\ P.entries[cur].refCount >= 0
                                /\ \/ ~evictEntryWithOpenedDataset
                                   \/ P.entries[cur].nRAMUsage > 0 })

EvictCandidateFirst(P, evictEntryWithOpenedDataset) ==
    FirstSuch(ListOrder(P),
              { cur \in Slots : /\ P.entries[cur].refCount = 0
                                 /\ \/ ~evictEntryWithOpenedDataset
                                    \/ P.entries[cur].nRAMUsage > 0 })

EvictCandidateNone(P, evictEntryWithOpenedDataset) == NULL

\* the walk of EvictEntryWithZeroRefCount: the last entry, from the head, that
\* has refCount 0 (and, for the RAM loop, a RAM estimate)
EvictCandidate(P, evictEntryWithOpenedDataset) ==
    LastSuch(ListOrder(P),
             { cur \in Slots : /\ P.entries[cur].refCount = 0
                                /\ \/ ~evictEntryWithOpenedDataset
                                   \/ P.entries[cur].nRAMUsage > 0 })

\* EvictEntryWithZeroRefCount up to the call of GDALClose
EvictBeforeClose(P, candidate) ==
    [P EXCEPT !.nRAMUsage = @ - P.entries[candidate].nRAMUsage,
              !.entries[candidate].nRAMUsage = 0,
              !.entries[candidate].pszFileNameAndOpenOptions = NullStr]

\* EvictEntryWithZeroRefCount right after GDALClose returned
EvictClosed(P, candidate) ==
    [P EXCEPT !.entries[candidate].poDS = NULL]

\* "Recycle this entry ... and moves it to the top of the list"
RecycleToTop(P, candidate) ==
    LET p == P.entries[candidate].prev
        n == P.entries[candidate].next
        E1 == IF p # NULL THEN [P.entries EXCEPT ![p].next = n] ELSE P.entries
        E2 == IF n # NULL THEN [E1 EXCEPT ![n].prev = p]
              ELSE [E1 EXCEPT ![E1[P.lastEntry].prev].next = NULL]
        last2 == IF n # NULL THEN P.lastEntry ELSE E2[P.lastEntry].prev
        E3 == [E2 EXCEPT ![candidate].prev = NULL]
        E4 == [E3 EXCEPT ![candidate].next = P.firstEntry]
        E5 == [E4 EXCEPT ![P.firstEntry].prev = candidate]
    IN [P EXCEPT !.entries = E5, !.lastEntry = last2, !.firstEntry = candidate]

\* faulty variant for the sensitivity of C33: the entry is moved to the top
\* also when it was closed for RAM
EvictFinishAlwaysRecycles(P, candidate, evictEntryWithOpenedDataset) ==
    LET P1 == [P EXCEPT !.entries[candidate].pszOwner = NullStr]
    IN IF candidate # P1.firstEntry
       THEN RecycleToTop(P1, candidate)
       ELSE P1

\* the rest of EvictEntryWithZeroRefCount
EvictFinish(P, candidate, evictEntryWithOpenedDataset) ==
    LET P1 == [P EXCEPT !.entries[candidate].pszOwner = NullStr]
    IN IF ~evictEntryWithOpenedDataset /\ candidate # P1.firstEntry
       THEN RecycleToTop(P1, candidate)
       ELSE P1

\* faulty variant for the sensitivity of C31: the new entry is linked in but
\* not counted
PrependUncounted(P) ==
    LET cur == P.currentSize + 1
        E1 == [P.entries EXCEPT ![cur] = ZeroEntry]
        E2 == [E1 EXCEPT ![cur].next = P.firstEntry]
    IN [P EXCEPT !.entries = E2, !.firstEntry = cur,
                 !.lastEntry = IF P.lastEntry = NULL THEN cur ELSE P.lastEntry]

\* "Prepend": the new entry takes the next unused slot
Prepend(P) ==
    LET cur == P.currentSize + 1
        last1 == IF P.lastEntry = NULL THEN cur ELSE P.lastEntry
        E1 == [P.entries EXCEPT ![cur] = ZeroEntry]
        E2 == [E1 EXCEPT ![cur].prev = NULL]
        E3 == [E2 EXCEPT ![cur].next = P.firstEntry]
        E4 == IF P.firstEntry # NULL
              THEN [E3 EXCEPT ![P.firstEntry].prev = cur] ELSE E3
    IN [P EXCEPT !.entries = E4, !.lastEntry = last1, !.firstEntry = cur,
                 !.currentSize = @ + 1]

\* faulty variant for the sensitivity of C14: the slot is not marked
InstallUnmarked(P, cur, r, responsiblePID) ==
    [P EXCEPT
       !.entries[cur].pszFileNameAndOpenOptions =
           CPLStrdup(GetFilenameAndOpenOptions(r.pszFileName, r.papszOpenOptions)),
       !.entries[cur].pszOwner =
           IF r.pszOwner # NullStr THEN CPLStrdup(r.pszOwner[1]) ELSE NullStr,
       !.entries[cur].responsiblePID = responsiblePID,
       !.entries[cur].refCount = 0,
       !.entries[cur].nRAMUsage = 0]

\* the slot is given to the request and marked "loading in progress"
Install(P, cur, r, responsiblePID) ==
    [P EXCEPT
       !.entries[cur].pszFileNameAndOpenOptions =
           CPLStrdup(GetFilenameAndOpenOptions(r.pszFileName, r.papszOpenOptions)),
       !.entries[cur].pszOwner =
           IF r.pszOwner # NullStr THEN CPLStrdup(r.pszOwner[1]) ELSE NullStr,
       !.entries[cur].responsiblePID = responsiblePID,
       !.entries[cur].refCount = -1,
       !.entries[cur].nRAMUsage = 0]

Max0(x) == IF x > 0 THEN x ELSE 0

\* faulty variant for the sensitivity of C3: the estimate is stored in the
\* entry and not added to the pool's total
FinalizeNoTotal(P, cur, poDS, nEstimatedRAMUsage) ==
    LET P1 == [P EXCEPT !.entries[cur].poDS = poDS,
                        !.entries[cur].refCount = 1]
    IN IF poDS # NULL
       THEN [P1 EXCEPT !.entries[cur].nRAMUsage = Max0(nEstimatedRAMUsage)]
       ELSE P1

\* after GDALDataset::Open returned poDS (NULL on failure)
Finalize(P, cur, poDS, nEstimatedRAMUsage) ==
    LET P1 == [P EXCEPT !.entries[cur].poDS = poDS,
                        !.entries[cur].refCount = 1]
    IN IF poDS # NULL
       THEN [P1 EXCEPT !.entries[cur].nRAMUsage = Max0(nEstimatedRAMUsage),
                       !.nRAMUsage = @ + Max0(nEstimatedRAMUsage)]
       ELSE P1

\* the while loop that evicts opened datasets under RAM pressure.  It runs
\* until GDALClose has to be called for candidate "closing", or to its end
\* (closing = NULL).
RECURSIVE RamLoop(_, _)
RamLoop(P, cur) ==
    IF /\ P.nRAMUsage > nMaxRAMUsage
       /\ P.nRAMUsage # P.entries[cur].nRAMUsage
    THEN LET candidate == EvictCandidate(P, TRUE)
         IN IF candidate = NULL
            THEN [pool |-> P, closing |-> NULL]
            ELSE LET P1 == EvictBeforeClose(P, candidate)
                 IN IF P1.entries[candidate].poDS # NULL
                    THEN [pool |-> P1, closing |-> candidate]
                    ELSE RamLoop(EvictFinish(P1, candidate, TRUE), cur)
    ELSE [pool |-> P, closing |-> NULL]

\* faulty variant for the sensitivity of C11: the RAM loop is never entered
RamLoopSkipped(P, cur) == [pool |-> P, closing |-> NULL]

RamLoopEnter(P, cur) ==
    IF nMaxRAMUsage > 0 /\ P.entries[cur].nRAMUsage > 0
    THEN RamLoop(P, cur)
    ELSE [pool |-> P, closing |-> NULL]

\* faulty variant for the sensitivity of C18: bForceOpen is not looked at
RefDatasetEnterAlwaysOpens(P, r, responsiblePID) ==
    LET m == FirstSuch(ListOrder(P),
                       { cur \in Slots : Matches(P, cur, r, responsiblePID) })
    IN IF P.bInDestruction
       THEN [pool |-> P, kind |-> "ret", tag |-> "destroyed", e |-> NULL]
       ELSE IF m # NULL
       THEN [pool |-> Hit(P, m), kind |-> "ret", tag |-> "hit", e |-> m]
       ELSE IF P.currentSize = maxSize
       THEN LET candidate == EvictCandidate(P, FALSE)
            IN IF candidate = NULL
               THEN [pool |-> P, kind |-> "ret", tag |-> "exhausted", e |-> NULL]
               ELSE LET P1 == EvictBeforeClose(P, candidate)
                    IN IF P1.entries[candidate].poDS # NULL
                       THEN [pool |-> P1, kind |-> "close", tag |-> "recycle",
                             e |-> candidate]
                       ELSE LET P2 == EvictFinish(P1, candidate, FALSE)
                            IN [pool |-> Install(P2, P2.firstEntry, r, responsiblePID),
                                kind |-> "open", tag |-> "recycled",
                                e |-> P2.firstEntry]
       ELSE LET P1 == Prepend(P)
            IN [pool |-> Install(P1, P1.firstEntry, r, responsiblePID),
                kind |-> "open", tag |-> "fresh", e |-> P1.firstEntry]

\* _RefDataset from its entry to its first return, Open or Close:
\*   kind "ret"   : it returned e (tag hit) or nullptr (tag miss, exhausted,
\*                  destroyed)
\*   kind "open"  : slot e is installed and GDALDataset::Open is called
\*   kind "close" : candidate e is being recycled and GDALClose is called
RefDatasetEnter(P, r, responsiblePID) ==
    LET m == FirstSuch(ListOrder(P),
                       { cur \in Slots : Matches(P, cur, r, responsiblePID) })
    IN IF P.bInDestruction
       THEN [pool |-> P, kind |-> "ret", tag |-> "destroyed", e |-> NULL]
       ELSE IF m # NULL
       THEN [pool |-> Hit(P, m), kind |-> "ret", tag |-> "hit", e |-> m]
       ELSE IF ~r.bForceOpen
       THEN [pool |-> P, kind |-> "ret", tag |-> "miss", e |-> NULL]
       ELSE IF P.currentSize = maxSize
       THEN LET candidate == EvictCandidate(P, FALSE)
            IN IF candidate = NULL
               THEN [pool |-> P, kind |-> "ret", tag |-> "exhausted", e |-> NULL]
               ELSE LET P1 == EvictBeforeClose(P, candidate)
                    IN IF P1.entries[candidate].poDS # NULL
                       THEN [pool |-> P1, kind |-> "close", tag |-> "recycle",
                             e |-> candidate]
                       ELSE LET P2 == EvictFinish(P1, candidate, FALSE)
                            IN [pool |-> Install(P2, P2.firstEntry, r, responsiblePID),
                                kind |-> "open", tag |-> "recycled",
                                e |-> P2.firstEntry]
       ELSE LET P1 == Prepend(P)
            IN [pool |-> Install(P1, P1.firstEntry, r, responsiblePID),
                kind |-> "open", tag |-> "fresh", e |-> P1.firstEntry]

(* -------------------- _CloseDatasetIfZeroRefCount ----------------------- *)

\* faulty variant for the sensitivity of C17: a referenced entry is taken too
CloseIfIdleTargetPinned(P, r) ==
    LET osFilenameAndOO ==
            GetFilenameAndOpenOptions(r.pszFileName, r.papszOpenOptions)
    IN FirstSuch(ListOrder(P),
                 { cur \in Slots :
                    /\ P.entries[cur].refCount >= 0
                    /\ P.entries[cur].pszFileNameAndOpenOptions # NullStr
                    /\ osFilenameAndOO = P.entries[cur].pszFileNameAndOpenOptions[1]
                    /\ SameOwner(r.pszOwner, P.entries[cur].pszOwner)
                    /\ P.entries[cur].poDS # NULL })

\* the entry _CloseDatasetIfZeroRefCount closes: the first one of the list
\* with the key and the owner of the proxy, no reference and a dataset
CloseIfIdleTarget(P, r) ==
    LET osFilenameAndOO ==
            GetFilenameAndOpenOptions(r.pszFileName, r.papszOpenOptions)
    IN FirstSuch(ListOrder(P),
                 { cur \in Slots :
                    /\ P.entries[cur].refCount = 0
                    /\ P.entries[cur].pszFileNameAndOpenOptions # NullStr
                    /\ osFilenameAndOO = P.entries[cur].pszFileNameAndOpenOptions[1]
                    /\ SameOwner(r.pszOwner, P.entries[cur].pszOwner)
                    /\ P.entries[cur].poDS # NULL })

\* what is done to the entry before GDALClose is called
CloseIfIdleClear(P, cur) ==
    [P EXCEPT !.nRAMUsage = @ - P.entries[cur].nRAMUsage,
              !.entries[cur].nRAMUsage = 0,
              !.entries[cur].poDS = NULL,
              !.entries[cur].pszFileNameAndOpenOptions = NullStr,
              !.entries[cur].pszOwner = NullStr]

\* faulty variant for the sensitivity of C10: the reference is not given back
UnrefDatasetKeeps(P, cacheEntry) == P

\* faulty variant for the sensitivity of C15: the entry's RAM estimate is
\* dropped with the reference
UnrefDatasetForgets(P, cacheEntry) ==
    [P EXCEPT !.entries[cacheEntry].refCount = @ - 1,
              !.entries[cacheEntry].nRAMUsage = 0]

\* GDALDatasetPool::UnrefDataset
UnrefDataset(P, cacheEntry) ==
    [P EXCEPT !.entries[cacheEntry].refCount = @ - 1]

(* ------------------------------ threads --------------------------------- *)

NoRequest == CHOOSE r \in Requests : TRUE

\* one pool call in progress on a thread
Frame(kind, tag, r, e, cur, h, savedPID) ==
    [ kind |-> kind, tag |-> tag, req |-> r, e |-> e, cur |-> cur, h |-> h,
      savedPID |-> savedPID ]

Top(t) == stack[t][Len(stack[t])]
Push(t, f) == [stack EXCEPT ![t] = Append(@, f)]
Pop(t) == [stack EXCEPT ![t] = SubSeq(@, 1, Len(@) - 1)]
Replace(t, f) == [stack EXCEPT ![t] = Append(SubSeq(@, 1, Len(@) - 1), f)]

InOpen(t) == stack[t] # << >> /\ Top(t).kind = "open"
InClose(t) == stack[t] # << >> /\ Top(t).kind = "close"
\* user code between PreventDestroy and ForceDestroy
InShutdown(t) == stack[t] # << >> /\ Top(t).kind = "shutdown"
\* the thread runs code that may call into the pool: user code, or the
\* backend inside GDALDataset::Open or GDALClose
InClient(t) == stack[t] = << >> \/ InOpen(t) \/ InClose(t) \/ InShutdown(t)

\* faulty variant for the sensitivity of C29: the mutex is kept during
\* GDALDataset::Open too
MutexHeldInOpen(u) ==
    \E i \in 1 .. Len(stack[u]) : stack[u][i].kind \in {"open", "close"}

\* faulty variant for the sensitivity of C28: the mutex is released around
\* GDALClose too
MutexHeldByNone(u) == FALSE

\* CPLMutexHolderD(GDALGetphDLMutex()): the mutex is recursive, it is released
\* around GDALDataset::Open only, and so a thread keeps it while one of its
\* calls is inside GDALClose
MutexHeldBy(u) == \E i \in 1 .. Len(stack[u]) : stack[u][i].kind = "close"
CanLock(t) == \A u \in Threads \ {t} : ~MutexHeldBy(u)

RECURSIVE SumOver(_, _)
SumOver(f, S) ==
    IF S = {} THEN 0
    ELSE LET x == CHOOSE y \in S : TRUE IN f[x] + SumOver(f, S \ {x})

HeldCount(t) == SumOver(held[t], Slots)

\* the address of a new dataset: the lowest one not in use (a closed
\* dataset's memory is free again)
InUse == { h \in Handles : ds[h].state \in {"open", "closing"} }
FreshHandle ==
    IF InUse = Handles THEN NULL
    ELSE CHOOSE h \in Handles \ InUse : \A g \in Handles \ InUse : h <= g

\* GDALClose(h) is entered under the responsible PID pid / has returned
CloseBegin(d, h, pid) ==
    [d EXCEPT ![h].state = IF @ = "open" THEN "closing" ELSE "closed twice"]
CloseEnd(d, h) ==
    [d EXCEPT ![h] = IF @.state = "closing"
                     THEN [state |-> "closed", file |-> ""] ELSE @]
OpenEnd(d, h, pszFileName) ==
    IF h = NULL THEN d
    ELSE [d EXCEPT ![h] = [state |-> "open", file |-> pszFileName]]

\* the proxies the backend may use where the thread is: any proxy in user
\* code (none is left once the pool was destroyed), the sources of the dataset
\* inside its Open or Close
Usable(t) ==
    IF stack[t] = << >> THEN (IF pool.bInDestruction THEN {} ELSE Proxies)
    ELSE IF Top(t).kind = "open" THEN Sources(Top(t).req.pszFileName)
    ELSE IF Top(t).kind = "close" THEN Sources(ds[Top(t).h].file)
    ELSE {}

\* the members of a GDALProxyPoolDataset that was not constructed yet, and of
\* its band 1: no geotransform and no SRS given, metadataSet and
\* metadataItemSet nullptr (no element), block size (0, 0).  freed keeps the
\* elements of the two sets that were handed out and freed since.
NoProxy ==
    [ constructed |-> FALSE, pszProjectionRef |-> NullStr,
      m_bHasSrcGeoTransform |-> FALSE, m_bHasSrcSRS |-> FALSE,
      metadataSet |-> {}, metadataItemSet |-> {}, freed |-> {},
      nBlockXSize |-> 0, nBlockYSize |-> 0 ]

\* the state after construction: the proxies of the run exist, each took one
\* reference on the pool in its constructor and has a band of block size
\* (256, 256)
Init ==
    /\ pool = [ entries |-> [e \in Slots |-> ZeroEntry], firstEntry |-> NULL,
                lastEntry |-> NULL, currentSize |-> 0, nRAMUsage |-> 0,
                bInDestruction |-> FALSE ]
    /\ stack = [t \in Threads |-> << >>]
    /\ curPID = [t \in Threads |-> t]
    /\ held = [t \in Threads |-> [e \in Slots |-> 0]]
    /\ ds = [h \in Handles |-> [state |-> "closed", file |-> ""]]
    /\ nRefCountUnderlyingMainRasterBand =
          [p \in Proxies |-> [c \in ChildBands |-> 0]]
    /\ singleton = [alive |-> TRUE, refCount |-> Cardinality(Proxies),
                    nDeletes |-> 0]
    /\ refCountOfDisabledRefCount = [t \in Threads |-> 0]
    /\ members = [p \in Proxies |->
                     [NoProxy EXCEPT !.constructed = TRUE,
                                     !.nBlockXSize = 256, !.nBlockYSize = 256]]

\* GDALProxyPoolDataset::RefUnderlyingDataset(bForceOpen) up to the first
\* return, Open or Close of GDALDatasetPool::RefDataset.  Inside GDALClose the
\* backend only flushes (bForceOpen false) and destroys proxies.
RefUnderlyingDataset(t, r) ==
    /\ InClient(t)
    /\ \E p \in Usable(t) : r = Request(p, r.bForceOpen)
    /\ Len(stack[t]) < MaxDepth
    /\ HeldCount(t) < MaxHeld
    /\ CanLock(t)
    /\ InClose(t) => ~r.bForceOpen
    /\ LET curResponsiblePID == curPID[t]
           res == RefDatasetEnter(pool, r, r.responsiblePID)
           h == IF res.e = NULL THEN NULL ELSE pool.entries[res.e].poDS
       IN /\ pool' = res.pool
          /\ stack' = Push(t, Frame(res.kind, res.tag,
                                    IF res.tag \in {"miss", "destroyed"} THEN NoRequest ELSE r,
                                    res.e, NULL, h, curResponsiblePID))
          /\ curPID' = [curPID EXCEPT ![t] =
                            IF res.kind = "ret" THEN curResponsiblePID
                            ELSE IF res.kind = "open" THEN r.responsiblePID
                            ELSE pool.entries[res.e].responsiblePID]
          /\ ds' = IF res.kind = "close"
                   THEN CloseBegin(ds, h, pool.entries[res.e].responsiblePID)
                   ELSE ds
          /\ refCountOfDisabledRefCount' =
                 [refCountOfDisabledRefCount EXCEPT ![t] =
                     IF res.kind = "ret" THEN @ ELSE @ + 1]
          /\ UNCHANGED << held, nRefCountUnderlyingMainRasterBand, singleton,
                    members >>

\* GDALClose of the recycled candidate returned: the slot is moved to the top,
\* given to the request and GDALDataset::Open is called
\* (refCountOfDisabledRefCount-- after the close, ++ before the open)
RecycleCloseReturn(t) ==
    /\ InClose(t)
    /\ Top(t).tag = "recycle"
    /\ LET f == Top(t)
           P1 == EvictClosed(pool, f.e)
           P2 == EvictFinish(P1, f.e, FALSE)
           cur == P2.firstEntry
       IN /\ pool' = Install(P2, cur, f.req, f.req.responsiblePID)
          /\ stack' = Replace(t, Frame("open", "recycled", f.req, cur, NULL, NULL,
                                       f.savedPID))
          /\ curPID' = [curPID EXCEPT ![t] = f.req.responsiblePID]
          /\ ds' = CloseEnd(ds, f.h)
          /\ UNCHANGED << held, nRefCountUnderlyingMainRasterBand,
                    singleton, refCountOfDisabledRefCount, members >>

\* the end of _RefDataset, from the RAM loop on: either GDALClose is called
\* for the next candidate, or _RefDataset returns cur and
\* RefUnderlyingDataset restores the responsible PID
RamLoopStep(t, f, L, d) ==
    IF L.closing = NULL
    THEN /\ pool' = L.pool
         /\ stack' = Replace(t, Frame("ret", "opened", f.req, f.cur, NULL, NULL,
                                      f.savedPID))
         /\ curPID' = [curPID EXCEPT ![t] = f.savedPID]
         /\ ds' = d
         /\ refCountOfDisabledRefCount' =
                [refCountOfDisabledRefCount EXCEPT ![t] = @ - 1]
    ELSE /\ pool' = L.pool
         /\ stack' = Replace(t, Frame("close", "ram", f.req, L.closing, f.cur,
                                      L.pool.entries[L.closing].poDS, f.savedPID))
         /\ curPID' = [curPID EXCEPT ![t] = L.pool.entries[L.closing].responsiblePID]
         /\ ds' = CloseBegin(d, L.pool.entries[L.closing].poDS,
                             L.pool.entries[L.closing].responsiblePID)
         /\ UNCHANGED refCountOfDisabledRefCount

\* GDALDataset::Open returned (a new handle, or NULL): the mutex is taken
\* again and the slot is finalized
OpenReturn(t) ==
    /\ InOpen(t)
    /\ CanLock(t)
    /\ \E poDS \in {NULL, FreshHandle} :
       \E nEstimatedRAMUsage \in GetEstimatedRAMUsage(Top(t).req.pszFileName) :
            LET f == Top(t)
                P1 == Finalize(pool, f.e, poDS, nEstimatedRAMUsage)
            IN RamLoopStep(t, [f EXCEPT !.cur = f.e], RamLoopEnter(P1, f.e),
                           OpenEnd(ds, poDS, f.req.pszFileName))
    /\ UNCHANGED << held, nRefCountUnderlyingMainRasterBand, singleton,
                    members >>

\* GDALClose of a candidate of the RAM loop returned
RamCloseReturn(t) ==
    /\ InClose(t)
    /\ Top(t).tag = "ram"
    /\ LET f == Top(t)
           P1 == EvictClosed(pool, f.e)
           P2 == EvictFinish(P1, f.e, TRUE)
       IN RamLoopStep(t, f, RamLoop(P2, f.cur), CloseEnd(ds, f.h))
    /\ UNCHANGED << held, nRefCountUnderlyingMainRasterBand, singleton,
                    members >>

\* RefUnderlyingDataset after RefDataset returned: it keeps the entry if its
\* dataset is there
RefUnderlyingDatasetKeep(t) ==
    /\ stack[t] # << >>
    /\ Top(t).kind = "ret"
    /\ Top(t).e # NULL
    /\ pool.entries[Top(t).e].poDS # NULL
    /\ held' = [held EXCEPT ![t][Top(t).e] = @ + 1]
    /\ stack' = Pop(t)
    /\ UNCHANGED << pool, curPID, ds, nRefCountUnderlyingMainRasterBand,
                    singleton, refCountOfDisabledRefCount, members >>

\* ... it gives the entry back if the dataset could not be opened
RefUnderlyingDatasetFail(t) ==
    /\ stack[t] # << >>
    /\ Top(t).kind = "ret"
    /\ Top(t).e # NULL
    /\ pool.entries[Top(t).e].poDS = NULL
    /\ CanLock(t)
    /\ pool' = UnrefDataset(pool, Top(t).e)
    /\ stack' = Pop(t)
    /\ UNCHANGED << curPID, held, ds, nRefCountUnderlyingMainRasterBand,
                    singleton, refCountOfDisabledRefCount, members >>

\* ... and it returns nullptr if RefDataset returned no entry
RefUnderlyingDatasetNone(t) ==
    /\ stack[t] # << >>
    /\ Top(t).kind = "ret"
    /\ Top(t).e = NULL
    /\ stack' = Pop(t)
    /\ UNCHANGED << pool, curPID, held, ds, nRefCountUnderlyingMainRasterBand,
                    singleton, refCountOfDisabledRefCount, members >>

\* GDALProxyPoolDataset::UnrefUnderlyingDataset by the holder of cacheEntry
UnrefUnderlyingDataset(t, cacheEntry) ==
    /\ InClient(t)
    /\ held[t][cacheEntry] > 0
    /\ CanLock(t)
    /\ pool' = IF pool.entries[cacheEntry].poDS # NULL
               THEN UnrefDataset(pool, cacheEntry)
               ELSE pool
    /\ held' = [held EXCEPT ![t][cacheEntry] = @ - 1]
    /\ UNCHANGED << stack, curPID, ds, nRefCountUnderlyingMainRasterBand,
                    singleton, refCountOfDisabledRefCount, members >>

\* GDALDatasetPool::CloseDatasetIfZeroRefCount (from ~GDALProxyPoolDataset):
\* it returns at once when the pool is being destroyed or there is no dataset
\* to close, and else goes up to the call of GDALClose
CloseDatasetIfZeroRefCount(t, r) ==
    /\ InClient(t)
    /\ \E p \in Usable(t) : r = Request(p, FALSE)
    /\ Len(stack[t]) < MaxDepth
    /\ CanLock(t)
    /\ LET cur == CloseIfIdleTarget(pool, r)
           responsiblePID == curPID[t]
       IN IF pool.bInDestruction \/ cur = NULL
          THEN UNCHANGED vars
          ELSE /\ pool' = CloseIfIdleClear(pool, cur)
               /\ stack' = Push(t, Frame("close", "idle", r, cur, NULL,
                                         pool.entries[cur].poDS, responsiblePID))
               /\ curPID' = [curPID EXCEPT ![t] = pool.entries[cur].responsiblePID]
               /\ ds' = CloseBegin(ds, pool.entries[cur].poDS,
                                   pool.entries[cur].responsiblePID)
               /\ refCountOfDisabledRefCount' =
                      [refCountOfDisabledRefCount EXCEPT ![t] = @ + 1]
               /\ UNCHANGED << held, nRefCountUnderlyingMainRasterBand, singleton,
                    members >>

\* GDALClose called by _CloseDatasetIfZeroRefCount returned
IdleCloseReturn(t) ==
    /\ InClose(t)
    /\ Top(t).tag = "idle"
    /\ curPID' = [curPID EXCEPT ![t] = Top(t).savedPID]
    /\ ds' = CloseEnd(ds, Top(t).h)
    /\ stack' = Pop(t)
    /\ refCountOfDisabledRefCount' =
           [refCountOfDisabledRefCount EXCEPT ![t] = @ - 1]
    /\ UNCHANGED << pool, held, nRefCountUnderlyingMainRasterBand, singleton,
                    members >>

Next ==
    \E t \in Threads :
        \/ \E r \in Requests : RefUnderlyingDataset(t, r)
        \/ OpenReturn(t)
        \/ RecycleCloseReturn(t)
        \/ RamCloseReturn(t)
        \/ RefUnderlyingDatasetKeep(t)
        \/ RefUnderlyingDatasetFail(t)
        \/ RefUnderlyingDatasetNone(t)
        \/ \E e \in Slots : UnrefUnderlyingDataset(t, e)
        \/ \E r \in Requests : CloseDatasetIfZeroRefCount(t, r)
        \/ IdleCloseReturn(t)

Spec == Init /\ [][Next]_vars

(* --------------------------- pool teardown ------------------------------ *)

\* ~GDALDatasetPool: the loop over the entries from cur, up to the next call
\* of GDALClose (closing, and next to go on from) or to the end of the list
\* (closing = NULL).  The key and the owner of a visited entry are freed, and
\* an entry without dataset is freed at once.
RECURSIVE DestructorWalk(_, _)
DestructorWalk(P, cur) ==
    IF cur = NULL THEN [pool |-> P, closing |-> NULL, next |-> NULL]
    ELSE LET next == P.entries[cur].next
             P1 == [P EXCEPT !.entries[cur].pszFileNameAndOpenOptions = NullStr,
                             !.entries[cur].pszOwner = NullStr]
         IN IF P1.entries[cur].poDS # NULL
            THEN [pool |-> P1, closing |-> cur, next |-> next]
            ELSE DestructorWalk([P1 EXCEPT !.entries[cur] = ZeroEntry], next)

\* delete singleton: the pool object is gone
Deleted(P) ==
    [P EXCEPT !.firstEntry = NULL, !.lastEntry = NULL, !.currentSize = 0,
              !.nRAMUsage = 0]

\* faulty variant for the sensitivity of C13: the destructor closes the
\* datasets under the PID of the thread that runs it
DestructorStepOwnPID(t, W, rest, responsiblePID, d) ==
    IF W.closing = NULL
    THEN /\ pool' = Deleted(W.pool)
         /\ stack' = [stack EXCEPT ![t] = rest]
         /\ curPID' = [curPID EXCEPT ![t] = responsiblePID]
         /\ ds' = d
    ELSE /\ pool' = W.pool
         /\ stack' = [stack EXCEPT ![t] =
                          Append(rest, Frame("close", "teardown", NoRequest,
                                             W.closing, W.next,
                                             W.pool.entries[W.closing].poDS,
                                             responsiblePID))]
         /\ curPID' = [curPID EXCEPT ![t] = responsiblePID]
         /\ ds' = CloseBegin(d, W.pool.entries[W.closing].poDS,
                             W.pool.entries[W.closing].responsiblePID)

\* the destructor goes on from walk result W: GDALClose is called under the
\* responsible PID of the entry, or the loop is over and the PID the thread
\* had on entry is restored.  The frame keeps next in its field cur.
DestructorStep(t, W, rest, responsiblePID, d) ==
    IF W.closing = NULL
    THEN /\ pool' = Deleted(W.pool)
         /\ stack' = [stack EXCEPT ![t] = rest]
         /\ curPID' = [curPID EXCEPT ![t] = responsiblePID]
         /\ ds' = d
    ELSE /\ pool' = W.pool
         /\ stack' = [stack EXCEPT ![t] =
                          Append(rest, Frame("close", "teardown", NoRequest,
                                             W.closing, W.next,
                                             W.pool.entries[W.closing].poDS,
                                             responsiblePID))]
         /\ curPID' = [curPID EXCEPT ![t] = W.pool.entries[W.closing].responsiblePID]
         /\ ds' = CloseBegin(d, W.pool.entries[W.closing].poDS,
                             W.pool.entries[W.closing].responsiblePID)

\* delete singleton, and singleton = nullptr once the destructor has returned
\* (Unref and ForceDestroy)
Delete(t, rest) ==
    LET W == DestructorWalk([pool EXCEPT !.bInDestruction = TRUE],
                            pool.firstEntry)
    IN /\ DestructorStep(t, W, rest, curPID[t], ds)
       /\ singleton' = IF W.closing # NULL
                       THEN [alive |-> TRUE, refCount |-> 0,
                             nDeletes |-> singleton.nDeletes + 1]
                       ELSE [alive |-> FALSE, refCount |-> 0, nDeletes |-> 0]

\* GDALDatasetPool::Unref by the destructors of the proxies of the run, up to
\* the last proxy that holds a reference on the pool: no proxy is left, so no
\* call is in progress and no entry is held; the singleton is deleted
Unref(t) ==
    /\ \A u \in Threads : stack[u] = << >> /\ \A e \in Slots : held[u][e] = 0
    /\ ~pool.bInDestruction
    /\ CanLock(t)
    /\ Delete(t, stack[t])
    /\ UNCHANGED << held, nRefCountUnderlyingMainRasterBand,
                    refCountOfDisabledRefCount, members >>

\* GDALClose called by the destructor returned: the entry is freed and the
\* loop goes on
DestructorCloseReturn(t) ==
    /\ InClose(t)
    /\ Top(t).tag = "teardown"
    /\ LET f == Top(t)
           P1 == [pool EXCEPT !.entries[f.e] = ZeroEntry]
           W == DestructorWalk(P1, f.cur)
       IN /\ DestructorStep(t, W, SubSeq(stack[t], 1, Len(stack[t]) - 1),
                            f.savedPID, CloseEnd(ds, f.h))
          /\ singleton' = IF W.closing # NULL THEN singleton
                          ELSE [alive |-> FALSE, refCount |-> 0,
                                nDeletes |-> 0]
    /\ UNCHANGED << held, nRefCountUnderlyingMainRasterBand,
                    refCountOfDisabledRefCount, members >>

NextLife ==
    \/ Next
    \/ \E t \in Threads : Unref(t)
    \/ \E t \in Threads : DestructorCloseReturn(t)

SpecLife == Init /\ [][NextLife]_vars

(* --------------------------- unpaired release --------------------------- *)

\* GDALDataset::Open is running for entry e
OpenInFlight(e) ==
    \E t \in Threads : \E i \in 1 .. Len(stack[t]) :
        stack[t][i].kind = "open" /\ stack[t][i].e = e

\* GDALProxyPoolDataset::UnrefUnderlyingDataset called once more by user code
\* that already gave its reference back: the proxy still has cacheEntry (it
\* is only assigned by RefUnderlyingDataset), the dataset is there, and
\* UnrefDataset is called
UnrefUnderlyingDatasetUnpaired(t, cacheEntry) ==
    /\ stack[t] = << >>
    /\ held[t][cacheEntry] = 0
    /\ pool.entries[cacheEntry].poDS # NULL
    /\ pool.entries[cacheEntry].refCount = 0
    /\ Cardinality({ e \in Slots : pool.entries[e].refCount < 0
                                     /\ ~OpenInFlight(e) }) < MaxUnpaired
    /\ CanLock(t)
    /\ pool' = UnrefDataset(pool, cacheEntry)
    /\ UNCHANGED << stack, curPID, held, ds,
                    nRefCountUnderlyingMainRasterBand,
                    singleton, refCountOfDisabledRefCount, members >>

NextUnpaired ==
    \/ Next
    \/ \E t \in Threads : \E e \in Slots : UnrefUnderlyingDatasetUnpaired(t, e)

SpecUnpaired == Init /\ [][NextUnpaired]_vars

(* ------------------- operations of proxies and bands -------------------- *)

\* the thread of a single-threaded run
Main == 1

\* the operations user code makes on a proxy: one of the dataset (GetMetadata,
\* FlushCache, ...), one of its band, one of the overview or of the mask band
\* of that band, or GDALProxyPoolDataset::Create
Operations == {"dataset", "band", "create"} \cup ChildBands

RefCounts(P) == [e \in Slots |-> P.entries[e].refCount]

\* an operation in progress: its proxy and arguments, the cacheEntry of the
\* proxy once RefUnderlyingDataset returned, and where the operation is
\*   phase "ref"     : inside RefUnderlyingDataset
\*   phase "got"     : the dataset is referenced, the band is looked up next
\*   phase "use"     : the operation works on the dataset or band
\*   phase "destroy" : Create returns nullptr and deletes the proxy
\*   phase "end"     : the operation returns
\* before, heldBefore and nBefore keep the refCounts, what the thread holds
\* and the counter at the call
OpFrame(t, op, p, bForceOpen) ==
    [ kind |-> "op", tag |-> op, req |-> Request(p, bForceOpen), e |-> NULL,
      cur |-> NULL, h |-> NULL, savedPID |-> NULL, proxy |-> p,
      phase |-> "ref", result |-> "",
      before |-> RefCounts(pool), heldBefore |-> held[t],
      nBefore |-> nRefCountUnderlyingMainRasterBand[p] ]

InOp(t, phase) ==
    stack[t] # << >> /\ Top(t).kind = "op" /\ Top(t).phase = phase

\* faulty variant for the sensitivity of C19: the band gives nothing back
UnrefUnderlyingRasterBandKeeps(P, cacheEntry) == P

\* GDALProxyPoolRasterBand::UnrefUnderlyingRasterBand of a band that is there:
\* UnrefUnderlyingDataset of the proxy
UnrefUnderlyingRasterBand(P, cacheEntry) ==
    IF P.entries[cacheEntry].poDS # NULL THEN UnrefDataset(P, cacheEntry) ELSE P

\* the operation is called and calls RefUnderlyingDataset(bForceOpen): Create
\* and the getters with true, FlushCache with false.  The opener of a dataset
\* uses the proxies of its sources through dataset and band operations, and
\* its close flushes them.
OpCallFrame(t, f, bForceOpen) ==
    /\ InClient(t)
    /\ f.proxy \in Usable(t)
    /\ stack[t] # << >> => f.tag \in {"dataset", "band"}
    /\ f.tag = "create" => bForceOpen
    /\ InClose(t) => ~bForceOpen
    /\ Len(stack[t]) + 2 <= MaxOpDepth
    /\ HeldCount(t) < MaxHeld
    /\ CanLock(t)
    /\ LET r == f.req
           curResponsiblePID == curPID[t]
           res == RefDatasetEnter(pool, r, r.responsiblePID)
           h == IF res.e = NULL THEN NULL ELSE pool.entries[res.e].poDS
       IN /\ pool' = res.pool
          /\ stack' = [stack EXCEPT ![t] =
                          @ \o << f,
                                  Frame(res.kind, res.tag, r, res.e, NULL, h,
                                        curResponsiblePID) >>]
          /\ curPID' = [curPID EXCEPT ![t] =
                            IF res.kind = "ret" THEN curResponsiblePID
                            ELSE IF res.kind = "open" THEN r.responsiblePID
                            ELSE pool.entries[res.e].responsiblePID]
          /\ ds' = IF res.kind = "close"
                   THEN CloseBegin(ds, h, pool.entries[res.e].responsiblePID)
                   ELSE ds
          /\ refCountOfDisabledRefCount' =
                 [refCountOfDisabledRefCount EXCEPT ![t] =
                     IF res.kind = "ret" THEN @ ELSE @ + 1]
          /\ UNCHANGED << held, nRefCountUnderlyingMainRasterBand, singleton >>

\* ... by the operation op of proxy p
OpCall(t, op, p, bForceOpen) ==
    OpCallFrame(t, OpFrame(t, op, p, bForceOpen), bForceOpen)

\* ... by an operation that leaves the members of the proxy alone
OpBegin(t, op, p, bForceOpen) ==
    /\ OpCall(t, op, p, bForceOpen)
    /\ UNCHANGED members

\* RefUnderlyingDataset after RefDataset returned to the operation: the entry
\* is kept with its dataset, or given back without, or there is none
OpRefReturn(t) ==
    /\ Len(stack[t]) >= 2
    /\ Top(t).kind = "ret"
    /\ stack[t][Len(stack[t]) - 1].kind = "op"
    /\ CanLock(t)
    /\ LET cacheEntry == Top(t).e
           f == stack[t][Len(stack[t]) - 1]
           poUnderlyingDataset ==
               IF cacheEntry = NULL THEN NULL ELSE pool.entries[cacheEntry].poDS
           g == [f EXCEPT
                   !.e = cacheEntry,
                   !.result = IF poUnderlyingDataset # NULL THEN "referenced"
                              ELSE IF cacheEntry # NULL THEN "open failed"
                              ELSE Top(t).tag,
                   !.phase = IF poUnderlyingDataset # NULL THEN "got"
                             ELSE IF f.tag = "create" THEN "destroy"
                             ELSE "end"]
       IN /\ pool' = IF cacheEntry # NULL /\ poUnderlyingDataset = NULL
                     THEN UnrefDataset(pool, cacheEntry)
                     ELSE pool
          /\ held' = IF poUnderlyingDataset # NULL
                     THEN [held EXCEPT ![t][cacheEntry] = @ + 1]
                     ELSE held
          /\ stack' = [stack EXCEPT ![t] =
                          Append(SubSeq(@, 1, Len(@) - 2), g)]
          /\ UNCHANGED << curPID, ds, nRefCountUnderlyingMainRasterBand,
                    singleton, refCountOfDisabledRefCount, members >>

\* what GetBlockSize() of the band of an opened dataset reports
GetBlockSize(pszFileName) == IF pszFileName = "B" THEN 512 ELSE 128

\* faulty variant for the sensitivity of C27: the block size is loaded at
\* every acquisition
LoadBlockSizeAlways(m, pszFileName) ==
    [m EXCEPT !.nBlockXSize = GetBlockSize(pszFileName),
              !.nBlockYSize = GetBlockSize(pszFileName)]

\* GDALProxyPoolRasterBand::RefUnderlyingRasterBand with the band found: the
\* block size is loaded from the band unless both sizes are positive
LoadBlockSize(m, pszFileName) ==
    IF m.nBlockXSize <= 0 \/ m.nBlockYSize <= 0
    THEN [m EXCEPT !.nBlockXSize = GetBlockSize(pszFileName),
                   !.nBlockYSize = GetBlockSize(pszFileName)]
    ELSE m

\* with the dataset referenced, the operation looks for what it works on:
\* GetRasterBand(nBand) finds the band or not (poBand), and GetOverview /
\* GetMaskBand of that band finds the overview or mask band or not (poChild)
OpLookup(t) ==
    /\ InOp(t, "got")
    /\ Top(t).tag \in Operations
    /\ CanLock(t)
    /\ \E poBand \in BOOLEAN, poChild \in BOOLEAN :
         LET f == Top(t)
             isChild == f.tag \in ChildBands
             released ==
                 \/ f.tag \in {"band", "create"} \cup ChildBands /\ ~poBand
                 \/ f.tag = "create"
             counted == isChild /\ poBand
         IN /\ f.tag = "dataset" => poBand
            /\ ~counted => poChild
            /\ pool' = IF released
                       THEN (IF pool.entries[f.e].poDS # NULL
                             THEN UnrefDataset(pool, f.e) ELSE pool)
                       ELSE pool
            /\ held' = IF released THEN [held EXCEPT ![t][f.e] = @ - 1]
                       ELSE held
            /\ nRefCountUnderlyingMainRasterBand' =
                 IF counted
                 THEN [nRefCountUnderlyingMainRasterBand EXCEPT
                          ![f.proxy][f.tag] = @ + 1]
                 ELSE nRefCountUnderlyingMainRasterBand
            /\ members' =
                 IF poBand /\ f.tag \in {"band"} \cup ChildBands
                 THEN [members EXCEPT
                          ![f.proxy] = LoadBlockSize(@, f.proxy.pszFileName)]
                 ELSE members
            /\ stack' = Replace(t,
                 [f EXCEPT
                    !.result = IF ~poBand THEN "missing band"
                               ELSE IF ~poChild THEN "missing child"
                               ELSE IF f.tag = "create" THEN "created"
                               ELSE "referenced",
                    !.phase = IF f.tag = "create"
                              THEN (IF poBand THEN "end" ELSE "destroy")
                              ELSE IF poBand /\ poChild THEN "use"
                              ELSE "end"])
    /\ UNCHANGED << curPID, ds, singleton, refCountOfDisabledRefCount >>

\* the operation is done with the dataset or band and gives it back
OpUnref(t) ==
    /\ InOp(t, "use")
    /\ Top(t).tag \in Operations
    /\ CanLock(t)
    /\ LET f == Top(t)
       IN /\ pool' = IF f.tag = "dataset"
                     THEN (IF pool.entries[f.e].poDS # NULL
                           THEN UnrefDataset(pool, f.e) ELSE pool)
                     ELSE UnrefUnderlyingRasterBand(pool, f.e)
          /\ held' = [held EXCEPT ![t][f.e] = @ - 1]
          /\ nRefCountUnderlyingMainRasterBand' =
               IF f.tag \in ChildBands
               THEN [nRefCountUnderlyingMainRasterBand EXCEPT
                        ![f.proxy][f.tag] = @ - 1]
               ELSE nRefCountUnderlyingMainRasterBand
          /\ stack' = Replace(t, [f EXCEPT !.phase = "end", !.result = "done"])
    /\ UNCHANGED << curPID, ds, singleton, refCountOfDisabledRefCount, members >>

\* Create returns nullptr: ~GDALProxyPoolDataset calls
\* CloseDatasetIfZeroRefCount for the proxy
OpDestroy(t) ==
    /\ InOp(t, "destroy")
    /\ CanLock(t)
    /\ LET f == Top(t)
           cur == IF pool.bInDestruction THEN NULL
                  ELSE CloseIfIdleTarget(pool, f.req)
           g == [f EXCEPT !.phase = "end"]
       IN IF cur = NULL
          THEN /\ stack' = Replace(t, g)
               /\ UNCHANGED << pool, curPID, ds, refCountOfDisabledRefCount >>
          ELSE /\ pool' = CloseIfIdleClear(pool, cur)
               /\ stack' = [stack EXCEPT ![t] =
                               Append(SubSeq(@, 1, Len(@) - 1), g) \o
                               << Frame("close", "idle", f.req, cur, NULL,
                                        pool.entries[cur].poDS, curPID[t]) >>]
               /\ curPID' = [curPID EXCEPT ![t] =
                                 pool.entries[cur].responsiblePID]
               /\ ds' = CloseBegin(ds, pool.entries[cur].poDS,
                                   pool.entries[cur].responsiblePID)
               /\ refCountOfDisabledRefCount' =
                      [refCountOfDisabledRefCount EXCEPT ![t] = @ + 1]
    /\ UNCHANGED << held, nRefCountUnderlyingMainRasterBand, singleton,
                    members >>

\* the operation returns to its caller
OpEnd(t) ==
    /\ InOp(t, "end")
    /\ stack' = Pop(t)
    /\ UNCHANGED << pool, curPID, held, ds, nRefCountUnderlyingMainRasterBand,
                    singleton, refCountOfDisabledRefCount, members >>

NextBand ==
    \/ \E op \in Operations, p \in Proxies, bForceOpen \in BOOLEAN :
          OpBegin(Main, op, p, bForceOpen)
    \/ OpenReturn(Main)
    \/ RecycleCloseReturn(Main)
    \/ RamCloseReturn(Main)
    \/ OpRefReturn(Main)
    \/ OpLookup(Main)
    \/ OpUnref(Main)
    \/ OpDestroy(Main)
    \/ IdleCloseReturn(Main)
    \/ OpEnd(Main)

SpecBand == Init /\ [][NextBand]_vars

(* ------------------------ references on the pool ------------------------ *)

\* bound: the references on the pool (its refCount stays within -MaxRefs ..
\* MaxRefs)
MaxRefs == 2
\* bound: refCountOfDisabledRefCount stays within -MaxPrevent .. MaxPrevent in
\* user code
MaxPrevent == 1

\* the proxies that use the pool while its references are counted: "C" (with
\* its sources) and "B"
RefProxies ==
    { p \in Proxies : p.pszFileName = "C" \/ p.pszFileName = "B"
                      \/ p \in Sources("C") }

\* new GDALDatasetPool(GDALGetMaxDatasetPoolSize(), nMaxRAMUsage)
NewPool ==
    [ entries |-> [e \in Slots |-> ZeroEntry], firstEntry |-> NULL,
      lastEntry |-> NULL, currentSize |-> 0, nRAMUsage |-> 0,
      bInDestruction |-> FALSE ]

\* the destructor of the pool was entered while it was running: it frees
\* again what the first run freed, the behaviour is undefined from there on
\* and the run is not followed further
Crashed == singleton.nDeletes > 1

\* the program starts: singleton is nullptr and no proxy exists yet
InitRef ==
    /\ pool = NewPool
    /\ stack = [t \in Threads |-> << >>]
    /\ curPID = [t \in Threads |-> t]
    /\ held = [t \in Threads |-> [e \in Slots |-> 0]]
    /\ ds = [h \in Handles |-> [state |-> "closed", file |-> ""]]
    /\ nRefCountUnderlyingMainRasterBand =
          [p \in Proxies |-> [c \in ChildBands |-> 0]]
    /\ singleton = [alive |-> FALSE, refCount |-> 0, nDeletes |-> 0]
    /\ refCountOfDisabledRefCount = [t \in Threads |-> 0]
    /\ members = [p \in Proxies |-> NoProxy]

\* faulty variant for the sensitivity of C23: the counter of the thread is
\* not looked at
SuppressedNever(t) == FALSE

\* faulty variant for the sensitivity of C40: Ref and Unref never count
SuppressedAlways(t) == TRUE

\* Ref and Unref leave the refCount of the pool alone while the counter of the
\* calling thread is not zero
Suppressed(t) == refCountOfDisabledRefCount[t] # 0

\* the thread runs code that constructs and destroys proxies: user code, or
\* the backend of a dataset made of sources inside its Open or Close
MakesProxies(t) ==
    \/ stack[t] = << >>
    \/ InShutdown(t)
    \/ (InOpen(t) \/ InClose(t)) /\ Usable(t) # {}

\* GDALDatasetPool::Ref (constructors of GDALProxyPoolDataset), from user code
\* or from the backend inside GDALDataset::Open or GDALClose: the singleton is
\* created if there is none
GDALDatasetPoolRef(t) ==
    /\ MakesProxies(t)
    /\ CanLock(t)
    /\ singleton.refCount < MaxRefs
    /\ pool' = IF singleton.alive THEN pool ELSE NewPool
    /\ singleton' =
          IF singleton.alive
          THEN [singleton EXCEPT !.refCount =
                                    IF Suppressed(t) THEN @ ELSE @ + 1]
          ELSE [alive |-> TRUE,
                refCount |-> IF Suppressed(t) THEN 0 ELSE 1, nDeletes |-> 0]
    /\ UNCHANGED << stack, curPID, held, ds, nRefCountUnderlyingMainRasterBand,
                    refCountOfDisabledRefCount, members >>

\* the thread is on a shutdown path, between its calls of PreventDestroy and
\* ForceDestroy; nBefore keeps the counter of the thread at PreventDestroy
ShutdownFrame(t) ==
    [ kind |-> "shutdown", tag |-> "", req |-> NoRequest, e |-> NULL,
      cur |-> NULL, h |-> NULL, savedPID |-> NULL,
      nBefore |-> refCountOfDisabledRefCount[t] ]

\* GDALDatasetPool::PreventDestroy, called by user code that starts a
\* shutdown: nothing without singleton
PreventDestroy(t) ==
    /\ stack[t] = << >>
    /\ CanLock(t)
    /\ refCountOfDisabledRefCount[t] < MaxPrevent
    /\ refCountOfDisabledRefCount' =
          IF singleton.alive
          THEN [refCountOfDisabledRefCount EXCEPT ![t] = @ + 1]
          ELSE refCountOfDisabledRefCount
    /\ stack' = Push(t, ShutdownFrame(t))
    /\ UNCHANGED << pool, curPID, held, ds,
                    nRefCountUnderlyingMainRasterBand, singleton, members >>

\* the pool is deleted by user code that is done with it: no other thread is
\* inside a call of the pool and no proxy holds an entry
MayDelete(t) ==
    /\ \A u \in Threads \ {t} : stack[u] = << >> \/ InShutdown(u)
    /\ \A u \in Threads : \A e \in Slots : held[u][e] = 0

\* GDALDatasetPool::Unref (~GDALProxyPoolDataset), from user code or from the
\* backend inside GDALDataset::Open or GDALClose.  Without singleton it only
\* asserts.  The pool is deleted when its refCount comes to zero; singleton is
\* still set while the destructor runs, and an Unref made by a dataset that
\* the destructor closes can delete the pool once more.
GDALDatasetPoolUnref(t) ==
    /\ MakesProxies(t)
    /\ CanLock(t)
    /\ singleton.refCount > -MaxRefs
    /\ IF ~singleton.alive \/ Suppressed(t)
       THEN UNCHANGED vars
       ELSE IF singleton.refCount - 1 # 0
       THEN /\ singleton' = [singleton EXCEPT !.refCount = @ - 1]
            /\ UNCHANGED << pool, stack, curPID, held, ds,
                            nRefCountUnderlyingMainRasterBand,
                            refCountOfDisabledRefCount, members >>
       ELSE IF pool.bInDestruction
       THEN /\ singleton' = [singleton EXCEPT !.refCount = 0,
                                              !.nDeletes = @ + 1]
            /\ UNCHANGED << pool, stack, curPID, held, ds,
                            nRefCountUnderlyingMainRasterBand,
                            refCountOfDisabledRefCount, members >>
       ELSE /\ stack[t] = << >> \/ InShutdown(t)
            /\ MayDelete(t)
            /\ Delete(t, stack[t])
            /\ UNCHANGED << held, nRefCountUnderlyingMainRasterBand,
                            refCountOfDisabledRefCount, members >>

\* GDALDatasetPool::ForceDestroy, which ends the shutdown: nothing without
\* singleton; else the counter of the thread is decremented (and asserted to
\* be zero), the refCount is zeroed and the pool is deleted
ForceDestroy(t) ==
    /\ InShutdown(t)
    /\ CanLock(t)
    /\ refCountOfDisabledRefCount[t] > -MaxPrevent
    /\ IF ~singleton.alive
       THEN /\ stack' = Pop(t)
            /\ UNCHANGED << pool, curPID, held, ds,
                            nRefCountUnderlyingMainRasterBand, singleton,
                            refCountOfDisabledRefCount, members >>
       ELSE /\ MayDelete(t)
            /\ refCountOfDisabledRefCount' =
                  [refCountOfDisabledRefCount EXCEPT ![t] = @ - 1]
            /\ Delete(t, SubSeq(stack[t], 1, Len(stack[t]) - 1))
            /\ UNCHANGED << held, nRefCountUnderlyingMainRasterBand, members >>

\* there is a pool, and the run is followed
Running == singleton.alive /\ ~Crashed

\* the references on the pool are taken and given back by both threads; the
\* proxies are used by thread Main, while there is a pool
NextRef ==
    \/ \E t \in Threads : ~Crashed /\ GDALDatasetPoolRef(t)
    \/ \E t \in Threads : ~Crashed /\ GDALDatasetPoolUnref(t)
    \/ \E t \in Threads : ~Crashed /\ PreventDestroy(t)
    \/ \E t \in Threads : ~Crashed /\ ForceDestroy(t)
    \/ \E t \in Threads : Running /\ DestructorCloseReturn(t)
    \/ \E p \in RefProxies, b \in BOOLEAN :
          Running /\ RefUnderlyingDataset(Main, Request(p, b))
    \/ Running /\ OpenReturn(Main)
    \/ Running /\ RecycleCloseReturn(Main)
    \/ Running /\ RamCloseReturn(Main)
    \/ Running /\ RefUnderlyingDatasetKeep(Main)
    \/ Running /\ RefUnderlyingDatasetFail(Main)
    \/ Running /\ RefUnderlyingDatasetNone(Main)
    \/ \E e \in Slots : Running /\ UnrefUnderlyingDataset(Main, e)
    \/ \E p \in RefProxies :
          Running /\ CloseDatasetIfZeroRefCount(Main, Request(p, FALSE))
    \/ Running /\ IdleCloseReturn(Main)

SpecRef == InitRef /\ [][NextRef]_vars

(* ===================== the members of a proxy dataset ==================== *)

\* the proxies that the program constructs in this part of the model
ProxyFixture == { Proxy("A", TRUE, NullStr, 1), Proxy("B", FALSE, NullStr, 2) }

\* the block sizes a band is declared with
DeclaredBlockSizes == {0, 256}

\* the operations of GDALProxyPoolDataset on its spatial reference and its
\* geotransform
SrcOps ==
    {"GetSpatialRef", "SetSpatialRef", "GetGeoTransform", "SetGeoTransform"}

\* faulty variant for the sensitivity of C26: the setter keeps the flag
SetSpatialRefKeeps(m) == m

\* GDALProxyPoolDataset::SetSpatialRef before it forwards
SetSpatialRefMembers(m) == [m EXCEPT !.m_bHasSrcSRS = FALSE]

\* GDALProxyPoolDataset::SetGeoTransform before it forwards
SetGeoTransformMembers(m) == [m EXCEPT !.m_bHasSrcGeoTransform = FALSE]

\* the constructor with the dimensions given, followed by
\* AddSrcBandDescription for the band of the proxy: a reference on the pool
\* and the members, no RefUnderlyingDataset
GDALProxyPoolDataset(t, p, bGT, bSRS, nBlockXSizeIn, nBlockYSizeIn) ==
    /\ stack[t] = << >>
    /\ ~members[p].constructed
    /\ CanLock(t)
    /\ pool' = IF singleton.alive THEN pool ELSE NewPool
    /\ singleton' =
          IF singleton.alive
          THEN [singleton EXCEPT !.refCount =
                                    IF Suppressed(t) THEN @ ELSE @ + 1]
          ELSE [alive |-> TRUE,
                refCount |-> IF Suppressed(t) THEN 0 ELSE 1, nDeletes |-> 0]
    /\ members' = [members EXCEPT ![p] =
          [NoProxy EXCEPT
              !.constructed = TRUE,
              !.pszProjectionRef = IF bSRS THEN CPLStrdup("wkt") ELSE NullStr,
              !.m_bHasSrcGeoTransform = bGT,
              !.m_bHasSrcSRS = bSRS,
              !.nBlockXSize = nBlockXSizeIn,
              !.nBlockYSize = nBlockYSizeIn]]
    /\ UNCHANGED << stack, curPID, held, ds, nRefCountUnderlyingMainRasterBand,
                    refCountOfDisabledRefCount >>

\* an operation that returns a member of the proxy at once
OpMember(t, op, p, what) ==
    /\ stack[t] = << >>
    /\ members[p].constructed
    /\ stack' = Push(t, [OpFrame(t, op, p, TRUE) EXCEPT
                            !.phase = "end", !.result = what])
    /\ UNCHANGED << pool, curPID, held, ds, nRefCountUnderlyingMainRasterBand,
                    singleton, refCountOfDisabledRefCount, members >>

\* GDALProxyPoolDataset::GetSpatialRef
GetSpatialRef(t, p) ==
    IF members[p].m_bHasSrcSRS
    THEN OpMember(t, "GetSpatialRef", p, "m_poSRS")
    ELSE /\ stack[t] = << >>
         /\ members[p].constructed
         /\ OpBegin(t, "GetSpatialRef", p, TRUE)

\* GDALProxyPoolDataset::SetSpatialRef
SetSpatialRef(t, p) ==
    /\ stack[t] = << >>
    /\ members[p].constructed
    /\ OpCall(t, "SetSpatialRef", p, TRUE)
    /\ members' = [members EXCEPT ![p] = SetSpatialRefMembers(@)]

\* GDALProxyPoolDataset::GetGeoTransform
GetGeoTransform(t, p) ==
    IF members[p].m_bHasSrcGeoTransform
    THEN OpMember(t, "GetGeoTransform", p, "m_gt")
    ELSE /\ stack[t] = << >>
         /\ members[p].constructed
         /\ OpBegin(t, "GetGeoTransform", p, TRUE)

\* GDALProxyPoolDataset::SetGeoTransform
SetGeoTransform(t, p) ==
    /\ stack[t] = << >>
    /\ members[p].constructed
    /\ OpCall(t, "SetGeoTransform", p, TRUE)
    /\ members' = [members EXCEPT ![p] = SetGeoTransformMembers(@)]

\* a method of GDALProxyDataset with the dataset referenced: the backend
\* answers and the reference is released
OpForward(t) ==
    /\ InOp(t, "got")
    /\ Top(t).tag \in SrcOps
    /\ CanLock(t)
    /\ LET f == Top(t)
       IN /\ pool' = IF pool.entries[f.e].poDS # NULL
                     THEN UnrefDataset(pool, f.e) ELSE pool
          /\ held' = [held EXCEPT ![t][f.e] = @ - 1]
          /\ stack' = Replace(t, [f EXCEPT !.phase = "end",
                                           !.result = "backend"])
    /\ UNCHANGED << curPID, ds, nRefCountUnderlyingMainRasterBand, singleton,
                    refCountOfDisabledRefCount, members >>

\* a use of the band of a constructed proxy from user code
BandOp(t, p) ==
    /\ stack[t] = << >>
    /\ members[p].constructed
    /\ OpBegin(t, "band", p, TRUE)

\* the proxies are constructed with or without a spatial reference and a
\* geotransform and answer the gets and sets of user code
NextProxy ==
    \/ \E p \in ProxyFixture, bGT \in BOOLEAN, bSRS \in BOOLEAN :
          GDALProxyPoolDataset(Main, p, bGT, bSRS, 256, 256)
    \/ \E p \in ProxyFixture : GetSpatialRef(Main, p)
    \/ \E p \in ProxyFixture : SetSpatialRef(Main, p)
    \/ \E p \in ProxyFixture : GetGeoTransform(Main, p)
    \/ \E p \in ProxyFixture : SetGeoTransform(Main, p)
    \/ OpenReturn(Main)
    \/ RamCloseReturn(Main)
    \/ OpRefReturn(Main)
    \/ OpForward(Main)
    \/ OpEnd(Main)

SpecProxy == InitRef /\ [][NextProxy]_vars

\* the proxies are constructed with a band of a declared block size and user
\* code uses the band
NextBlock ==
    \/ \E p \in ProxyFixture,
          x \in DeclaredBlockSizes, y \in DeclaredBlockSizes :
          GDALProxyPoolDataset(Main, p, FALSE, FALSE, x, y)
    \/ \E p \in ProxyFixture : BandOp(Main, p)
    \/ OpenReturn(Main)
    \/ RamCloseReturn(Main)
    \/ OpRefReturn(Main)
    \/ OpLookup(Main)
    \/ OpUnref(Main)
    \/ OpEnd(Main)

SpecBlock == InitRef /\ [][NextBlock]_vars

(* ================== the metadata sets of a proxy dataset ================= *)

\* the number of elements allocated by the operations of a run
MaxElts == 3

\* what the dataset answers to GetMetadata and GetMetadataItem at the time of
\* a call
Answers == {"v1", "v2"}

\* the queries of a run: GetMetadata(pszDomain) has no name
Queries ==
    { [tag |-> "GetMetadata", pszName |-> NullStr, pszDomain |-> CPLStrdup("")],
      [tag |-> "GetMetadata", pszName |-> NullStr,
       pszDomain |-> CPLStrdup("IMAGE_STRUCTURE")],
      [tag |-> "GetMetadataItem", pszName |-> CPLStrdup("AREA_OR_POINT"),
       pszDomain |-> CPLStrdup("")] }

MetadataOps == {"GetMetadata", "GetMetadataItem"}

\* faulty variant for the sensitivity of C21: the answer is not copied
EltWithoutAnswer(id, f, answer) ==
    [ id |-> id, pszName |-> f.pszName, pszDomain |-> f.pszDomain,
      value |-> NullStr ]

\* GetMetadataElt / GetMetadataItemElt: the element number id that the proxy
\* allocated, with the copies of the arguments and of the answer
Elt(id, f, answer) ==
    [ id |-> id, pszName |-> f.pszName, pszDomain |-> f.pszDomain,
      value |-> CPLStrdup(answer) ]

\* faulty variant for the sensitivity of C22: all elements are equal
EqualEltAlways(a, b) == TRUE

\* equal_func_get_metadata and equal_func_get_metadata_item
EqualElt(a, b) == a.pszName = b.pszName /\ a.pszDomain = b.pszDomain

\* the hash set of the operation: metadataSet or metadataItemSet
SetOf(m, tag) == IF tag = "GetMetadata" THEN m.metadataSet ELSE m.metadataItemSet

\* the elements of the proxy: those of both sets and the freed ones
Allocated(m) == m.metadataSet \cup m.metadataItemSet \cup m.freed

\* the number of elements allocated so far
NElts ==
    LET n(r) == Cardinality(Allocated(members[r]))
    IN n(Proxy("A", TRUE, NullStr, 1)) + n(Proxy("B", FALSE, NullStr, 2))

\* CPLHashSetInsert on a set made with a free function: the element replaces
\* the equal element of the set, which is freed
CPLHashSetInsert(set, elt) ==
    [ set |-> {a \in set : ~EqualElt(a, elt)} \cup {elt},
      freed |-> {a \in set : EqualElt(a, elt)} ]

\* the frame of GetMetadata or GetMetadataItem: the arguments, what the
\* dataset answered and the element whose copy is returned (0: nullptr)
MetadataFrame(t, q, p) ==
    [ kind |-> "op", tag |-> q.tag, req |-> Request(p, TRUE), e |-> NULL,
      cur |-> NULL, h |-> NULL, savedPID |-> NULL, proxy |-> p,
      phase |-> "ref", result |-> "",
      before |-> RefCounts(pool), heldBefore |-> held[t],
      nBefore |-> nRefCountUnderlyingMainRasterBand[p],
      pszName |-> q.pszName, pszDomain |-> q.pszDomain,
      answer |-> "", pElt |-> 0 ]

\* GDALProxyPoolDataset::GetMetadata and GetMetadataItem up to
\* RefUnderlyingDataset
GetMetadata(t, q, p) ==
    /\ stack[t] = << >>
    /\ members[p].constructed
    /\ NElts < MaxElts
    /\ OpCallFrame(t, MetadataFrame(t, q, p), TRUE)
    /\ UNCHANGED members

\* ... and with the dataset referenced: the answer of the dataset is copied
\* into a new element, the element is inserted and the reference released
GetMetadataReturn(t) ==
    /\ InOp(t, "got")
    /\ Top(t).tag \in MetadataOps
    /\ CanLock(t)
    /\ \E answer \in Answers :
         LET f == Top(t)
             m == members[f.proxy]
             pElt == Elt(Cardinality(Allocated(m)) + 1, f, answer)
             ins == CPLHashSetInsert(SetOf(m, f.tag), pElt)
         IN /\ members' = [members EXCEPT ![f.proxy] =
                  IF f.tag = "GetMetadata"
                  THEN [m EXCEPT !.metadataSet = ins.set,
                                 !.freed = @ \cup ins.freed]
                  ELSE [m EXCEPT !.metadataItemSet = ins.set,
                                 !.freed = @ \cup ins.freed]]
            /\ pool' = IF pool.entries[f.e].poDS # NULL
                       THEN UnrefDataset(pool, f.e) ELSE pool
            /\ held' = [held EXCEPT ![t][f.e] = @ - 1]
            /\ stack' = Replace(t, [f EXCEPT !.phase = "end",
                                             !.result = "copied",
                                             !.answer = answer,
                                             !.pElt = pElt.id])
    /\ UNCHANGED << curPID, ds, nRefCountUnderlyingMainRasterBand, singleton,
                    refCountOfDisabledRefCount >>

\* proxies without spatial reference are constructed and answer the metadata
\* queries of user code
NextMeta ==
    \/ \E p \in ProxyFixture :
          GDALProxyPoolDataset(Main, p, FALSE, FALSE, 256, 256)
    \/ \E p \in ProxyFixture, q \in Queries : GetMetadata(Main, q, p)
    \/ OpenReturn(Main)
    \/ RamCloseReturn(Main)
    \/ OpRefReturn(Main)
    \/ GetMetadataReturn(Main)
    \/ OpEnd(Main)

SpecMeta == InitRef /\ [][NextMeta]_vars

(* ============================== progress ================================ *)

\* the steps by which a call of thread t that has returned from _RefDataset
\* goes back to its caller: they need no other thread
ReturnToCaller(t) ==
    \/ RefUnderlyingDatasetKeep(t)
    \/ RefUnderlyingDatasetFail(t)
    \/ RefUnderlyingDatasetNone(t)

\* the requests of the threads in the runs that are checked for progress
FairRequests == { Request(p, b) : p \in RefProxies, b \in BOOLEAN }

NextFair ==
    \E t \in Threads :
        \/ \E r \in FairRequests : RefUnderlyingDataset(t, r)
        \/ OpenReturn(t)
        \/ RecycleCloseReturn(t)
        \/ RamCloseReturn(t)
        \/ RefUnderlyingDatasetKeep(t)
        \/ RefUnderlyingDatasetFail(t)
        \/ RefUnderlyingDatasetNone(t)
        \/ \E e \in Slots : UnrefUnderlyingDataset(t, e)
        \/ \E r \in FairRequests : CloseDatasetIfZeroRefCount(t, r)
        \/ IdleCloseReturn(t)
        \/ Unref(t)
        \/ DestructorCloseReturn(t)

\* the call number i of the stack of thread t is the one in progress
AtDepth(t, i) == Len(stack[t]) = i

\* the next step of the call in progress on thread t
Proceeds(t) ==
    \/ OpenReturn(t)
    \/ RecycleCloseReturn(t)
    \/ RamCloseReturn(t)
    \/ IdleCloseReturn(t)
    \/ DestructorCloseReturn(t)
    \/ ReturnToCaller(t)

\* every GDALDataset::Open and every GDALClose returns, whatever the calls
\* that its own code makes meanwhile; a call that has returned goes back to
\* its caller; a thread that waits for the mutex gets it
Fairness ==
    \A t \in Threads :
       \A i \in 1 .. MaxDepth : SF_vars(AtDepth(t, i) /\ Proceeds(t))

SpecFair == Init /\ [][NextFair]_vars /\ Fairness

(* ------------------------ the list, three entries ----------------------- *)

\* A pool of MaxList entries used by one thread for plain rasters whose
\* GetEstimatedRAMUsage() is unknown (-1): Open and Close do not re-enter the
\* pool and no dataset is closed for RAM, so each call of RefDataset is one
\* step.  A list of three has a middle entry.
MaxList == 3
MaxListRefs == 2

ListSlots == 1 .. MaxList
ListProxies == { p \in Proxies : p.pszFileName # "C" }

\* the arguments of RefDataset, with the eAccess of the proxy
ListRequest(p, eAccess, bForceOpen) ==
    [ pszFileName |-> p.pszFileName, papszOpenOptions |-> p.papszOpenOptions,
      eAccess |-> eAccess, bShared |-> p.bShared, bForceOpen |-> bForceOpen,
      pszOwner |-> p.pszOwner, responsiblePID |-> p.responsiblePID ]

\* the access flag of nFlag
OpenFlag(eAccess) ==
    IF eAccess = "GA_Update" THEN "GDAL_OF_UPDATE" ELSE "GDAL_OF_READONLY"

InitList ==
    /\ pool = [ entries |-> [e \in ListSlots |-> ZeroEntry],
                firstEntry |-> NULL, lastEntry |-> NULL, currentSize |-> 0,
                nRAMUsage |-> 0, bInDestruction |-> FALSE ]
    /\ stack = [t \in Threads |-> << >>]
    /\ curPID = [t \in Threads |-> t]
    /\ held = [t \in Threads |-> [e \in Slots |-> 0]]
    /\ ds = [h \in Handles |-> [state |-> "closed", file |-> ""]]
    /\ nRefCountUnderlyingMainRasterBand =
          [p \in Proxies |-> [c \in ChildBands |-> 0]]
    /\ singleton = [alive |-> TRUE, refCount |-> Cardinality(Proxies),
                    nDeletes |-> 0]
    /\ refCountOfDisabledRefCount = [t \in Threads |-> 0]
    /\ members = [p \in Proxies |->
                     [NoProxy EXCEPT !.constructed = TRUE,
                                     !.nBlockXSize = 256, !.nBlockYSize = 256]]

\* the slot cur of P is given to r and GDALDataset::Open returns a new
\* dataset, or nullptr
ListOpen(P, d, cur, r) ==
    LET free == { h \in Handles : d[h].state = "closed" }
        new == IF free = {} THEN NULL
               ELSE CHOOSE h \in free : \A g \in free : h <= g
    IN \E poDS \in {NULL, new} :
          /\ pool' = Finalize(Install(P, cur, r, r.responsiblePID), cur,
                              poDS, -1)
          /\ ds' = IF poDS = NULL THEN d
                   ELSE [d EXCEPT ![poDS] =
                            [state |-> "open", file |-> r.pszFileName,
                             nOpenFlags |-> OpenFlag(r.eAccess)]]

\* GDALDatasetPool::_RefDataset, whole
ListRefDataset(r) ==
    LET m == FirstSuch(Walk(pool, pool.firstEntry, MaxList + 1),
                       { cur \in ListSlots :
                            Matches(pool, cur, r, r.responsiblePID) })
        candidate == LastSuch(Walk(pool, pool.firstEntry, MaxList + 1),
                              { cur \in ListSlots :
                                   pool.entries[cur].refCount = 0 })
    IN /\ IF m # NULL
          THEN /\ pool.entries[m].refCount < MaxListRefs
               /\ pool' = Hit(pool, m)
               /\ ds' = ds
          ELSE IF ~r.bForceOpen
          THEN UNCHANGED << pool, ds >>
          ELSE IF pool.currentSize = MaxList
          THEN IF candidate = NULL
               THEN UNCHANGED << pool, ds >>
               ELSE LET P1 == EvictBeforeClose(pool, candidate)
                        h == P1.entries[candidate].poDS
                        d1 == IF h # NULL
                              THEN CloseEnd(CloseBegin(ds, h,
                                       P1.entries[candidate].responsiblePID), h)
                              ELSE ds
                        P2 == EvictFinish(EvictClosed(P1, candidate),
                                          candidate, FALSE)
                    IN ListOpen(P2, d1, P2.firstEntry, r)
          ELSE LET P1 == Prepend(pool)
               IN ListOpen(P1, ds, P1.firstEntry, r)
       /\ UNCHANGED << stack, curPID, held,
                       nRefCountUnderlyingMainRasterBand, singleton,
                       refCountOfDisabledRefCount, members >>

\* GDALDatasetPool::_UnrefDataset by the caller that holds cacheEntry
ListUnrefDataset(cacheEntry) ==
    /\ pool.entries[cacheEntry].refCount > 0
    /\ pool' = UnrefDataset(pool, cacheEntry)
    /\ UNCHANGED << stack, curPID, held, ds,
                    nRefCountUnderlyingMainRasterBand, singleton,
                    refCountOfDisabledRefCount, members >>

NextList ==
    \/ \E p \in ListProxies, bForceOpen \in BOOLEAN :
          ListRefDataset(ListRequest(p, "GA_ReadOnly", bForceOpen))
    \/ \E cacheEntry \in ListSlots : ListUnrefDataset(cacheEntry)

SpecList == InitList /\ [][NextList]_vars

(* ------------------------ keys with open options ------------------------ *)

\* The pool of three entries used through proxies that differ in file name
\* and open options only (shared, no owner, made by thread 1): file names with
\* and without the separator of GetFilenameAndOpenOptions, option lists of at
\* most MaxOptions strings.
MaxOptions == 1

RECURSIVE OptionLists(_)
OptionLists(n) ==
    IF n = 0 THEN { << >> }
    ELSE LET shorter == OptionLists(n - 1)
         IN shorter \cup { Append(l, s) : l \in shorter, s \in {"b"} }

KeyRequests ==
    { ListRequest([Proxy(pszFileName, TRUE, NullStr, 1)
                      EXCEPT !.papszOpenOptions = papszOpenOptions],
                  "GA_ReadOnly", bForceOpen) :
        pszFileName \in {"a", "a||b"},
        papszOpenOptions \in OptionLists(MaxOptions),
        bForceOpen \in BOOLEAN }

NextKey ==
    \/ \E r \in KeyRequests : ListRefDataset(r)
    \/ \E cacheEntry \in ListSlots : ListUnrefDataset(cacheEntry)

SpecKey == InitList /\ [][NextKey]_vars

(* --------------------------- access modes ------------------------------- *)

\* The pool of three entries used through proxies of "A" made by thread 1
\* without owner, shared and not, with GA_ReadOnly and with GA_Update
AccessRequests ==
    { ListRequest(p, eAccess, bForceOpen) :
        p \in { q \in ListProxies : /\ q.pszFileName = "A"
                                    /\ q.responsiblePID = 1
                                    /\ q.pszOwner = NullStr },
        eAccess \in {"GA_ReadOnly", "GA_Update"},
        bForceOpen \in BOOLEAN }

NextAccess ==
    \/ \E r \in AccessRequests : ListRefDataset(r)
    \/ \E cacheEntry \in ListSlots : ListUnrefDataset(cacheEntry)

SpecAccess == InitList /\ [][NextAccess]_vars

(* ------------------- one proxy used by several threads ------------------ *)

\* One GDALProxyPoolDataset of "A" made by thread 1, shared or not, is used
\* by both threads.  Its member cacheEntry is written by every
\* RefUnderlyingDataset and read by every UnrefUnderlyingDataset, whichever
\* thread runs it.  held[t][e] counts the calls of thread t that were
\* answered with entry e and are not yet followed by their
\* UnrefUnderlyingDataset.  With one key in the pool no request finds the
\* pool full of other datasets, so no open dataset is recycled.
ShareProxies == { Proxy("A", TRUE, NullStr, 1), Proxy("A", FALSE, NullStr, 1) }

\* the proxy whose RefUnderlyingDataset makes request r
ProxyOf(r) == CHOOSE p \in Proxies : Request(p, r.bForceOpen) = r

\* the members of a proxy, with cacheEntry = nullptr
WithCacheEntry(m) ==
    [ constructed |-> m.constructed, pszProjectionRef |-> m.pszProjectionRef,
      m_bHasSrcGeoTransform |-> m.m_bHasSrcGeoTransform,
      m_bHasSrcSRS |-> m.m_bHasSrcSRS, metadataSet |-> m.metadataSet,
      metadataItemSet |-> m.metadataItemSet, freed |-> m.freed,
      nBlockXSize |-> m.nBlockXSize, nBlockYSize |-> m.nBlockYSize,
      cacheEntry |-> NULL ]

InitShare ==
    /\ pool = [ entries |-> [e \in Slots |-> ZeroEntry], firstEntry |-> NULL,
                lastEntry |-> NULL, currentSize |-> 0, nRAMUsage |-> 0,
                bInDestruction |-> FALSE ]
    /\ stack = [t \in Threads |-> << >>]
    /\ curPID = [t \in Threads |-> t]
    /\ held = [t \in Threads |-> [e \in Slots |-> 0]]
    /\ ds = [h \in Handles |-> [state |-> "closed", file |-> ""]]
    /\ nRefCountUnderlyingMainRasterBand =
          [p \in Proxies |-> [c \in ChildBands |-> 0]]
    /\ singleton = [alive |-> TRUE, refCount |-> 1, nDeletes |-> 0]
    /\ refCountOfDisabledRefCount = [t \in Threads |-> 0]
    /\ \E p \in ShareProxies :
          members = [q \in Proxies |->
                        IF q = p
                        THEN WithCacheEntry(
                                 [NoProxy EXCEPT !.constructed = TRUE,
                                                 !.nBlockXSize = 256,
                                                 !.nBlockYSize = 256])
                        ELSE WithCacheEntry(NoProxy)]

\* RefUnderlyingDataset of the proxy of the run, up to the first return, Open
\* or Close of GDALDatasetPool::RefDataset
ShareRefUnderlyingDataset(t, r) ==
    /\ members[ProxyOf(r)].constructed
    /\ stack[t] = << >>
    /\ RefUnderlyingDataset(t, r)

\* RefUnderlyingDataset after RefDataset returned: the result is stored in
\* the member cacheEntry; the dataset of the entry is returned ...
ShareRefUnderlyingDatasetKeep(t) ==
    /\ stack[t] # << >>
    /\ Top(t).kind = "ret"
    /\ Top(t).e # NULL
    /\ pool.entries[Top(t).e].poDS # NULL
    /\ members' = [members EXCEPT ![ProxyOf(Top(t).req)].cacheEntry = Top(t).e]
    /\ held' = [held EXCEPT ![t][Top(t).e] = @ + 1]
    /\ stack' = Pop(t)
    /\ UNCHANGED << pool, curPID, ds, nRefCountUnderlyingMainRasterBand,
                    singleton, refCountOfDisabledRefCount >>

\* ... or the entry is given back if it has no dataset ...
ShareRefUnderlyingDatasetFail(t) ==
    /\ stack[t] # << >>
    /\ Top(t).kind = "ret"
    /\ Top(t).e # NULL
    /\ pool.entries[Top(t).e].poDS = NULL
    /\ CanLock(t)
    /\ members' = [members EXCEPT ![ProxyOf(Top(t).req)].cacheEntry = Top(t).e]
    /\ pool' = UnrefDataset(pool, Top(t).e)
    /\ stack' = Pop(t)
    /\ UNCHANGED << curPID, held, ds, nRefCountUnderlyingMainRasterBand,
                    singleton, refCountOfDisabledRefCount >>

\* ... or RefDataset returned nullptr, which is stored too
ShareRefUnderlyingDatasetNone(t, p) ==
    /\ stack[t] # << >>
    /\ Top(t).kind = "ret"
    /\ Top(t).e = NULL
    /\ members[p].constructed
    /\ members' = [members EXCEPT ![p].cacheEntry = NULL]
    /\ stack' = Pop(t)
    /\ UNCHANGED << pool, curPID, held, ds, nRefCountUnderlyingMainRasterBand,
                    singleton, refCountOfDisabledRefCount >>

\* UnrefUnderlyingDataset of proxy p by thread t, for a call of t that was
\* answered with entry e: the entry released is the one the member cacheEntry
\* points at now
ShareUnrefUnderlyingDataset(t, p, e) ==
    /\ stack[t] = << >>
    /\ members[p].constructed
    /\ held[t][e] > 0
    /\ CanLock(t)
    /\ LET cacheEntry == members[p].cacheEntry
       IN pool' = IF cacheEntry # NULL /\ pool.entries[cacheEntry].poDS # NULL
                  THEN UnrefDataset(pool, cacheEntry)
                  ELSE pool
    /\ held' = [held EXCEPT ![t][e] = @ - 1]
    /\ UNCHANGED << stack, curPID, ds, nRefCountUnderlyingMainRasterBand,
                    singleton, refCountOfDisabledRefCount, members >>

NextShare ==
    \/ \E t \in Threads : \E r \in Requests : ShareRefUnderlyingDataset(t, r)
    \/ \E t \in Threads : OpenReturn(t)
    \/ \E t \in Threads : RamCloseReturn(t)
    \/ \E t \in Threads : ShareRefUnderlyingDatasetKeep(t)
    \/ \E t \in Threads : ShareRefUnderlyingDatasetFail(t)
    \/ \E t \in Threads : \E p \in ShareProxies :
          ShareRefUnderlyingDatasetNone(t, p)
    \/ \E t \in Threads : \E p \in ShareProxies : \E e \in Slots :
          ShareUnrefUnderlyingDataset(t, p, e)

SpecShare == InitShare /\ [][NextShare]_vars

(* ------------------- forced acquisition inside GDALClose ---------------- *)

\* One thread uses the pool, and the backend, while it closes a dataset made
\* of sources, may also call RefUnderlyingDataset(true) on a source: the pool
\* mutex is recursive and nothing in RefUnderlyingDataset or _RefDataset tells
\* a call made from inside GDALClose from any other call.
ReenterRefUnderlyingDataset(t, r) ==
    /\ InClient(t)
    /\ \E p \in Usable(t) : r = Request(p, r.bForceOpen)
    /\ Len(stack[t]) < MaxDepth
    /\ HeldCount(t) < MaxHeld
    /\ CanLock(t)
    /\ LET curResponsiblePID == curPID[t]
           res == RefDatasetEnter(pool, r, r.responsiblePID)
           h == IF res.e = NULL THEN NULL ELSE pool.entries[res.e].poDS
       IN /\ pool' = res.pool
          /\ stack' = Push(t, Frame(res.kind, res.tag,
                                    IF res.tag \in {"miss", "destroyed"} THEN NoRequest ELSE r,
                                    res.e, NULL, h, curResponsiblePID))
          /\ curPID' = [curPID EXCEPT ![t] =
                            IF res.kind = "ret" THEN curResponsiblePID
                            ELSE IF res.kind = "open" THEN r.responsiblePID
                            ELSE pool.entries[res.e].responsiblePID]
          /\ ds' = IF res.kind = "close"
                   THEN CloseBegin(ds, h, pool.entries[res.e].responsiblePID)
                   ELSE ds
          /\ refCountOfDisabledRefCount' =
                 [refCountOfDisabledRefCount EXCEPT ![t] =
                     IF res.kind = "ret" THEN @ ELSE @ + 1]
          /\ UNCHANGED << held, nRefCountUnderlyingMainRasterBand, singleton,
                          members >>

NextReenter ==
    \/ \E r \in Requests : ReenterRefUnderlyingDataset(Main, r)
    \/ OpenReturn(Main)
    \/ RecycleCloseReturn(Main)
    \/ RamCloseReturn(Main)
    \/ RefUnderlyingDatasetKeep(Main)
    \/ RefUnderlyingDatasetFail(Main)
    \/ RefUnderlyingDatasetNone(Main)
    \/ \E e \in Slots : UnrefUnderlyingDataset(Main, e)
    \/ \E r \in Requests : CloseDatasetIfZeroRefCount(Main, r)
    \/ IdleCloseReturn(Main)

SpecReenter == Init /\ [][NextReenter]_vars

(* -------------------- proxies and the refCount of the pool -------------- *)

\* Both threads construct and destroy the proxies of ProxyFixture and start
\* and end shutdowns; no dataset is opened.  The field counted of a proxy
\* keeps whether GDALDatasetPool::Ref, called by its constructor, incremented
\* the refCount of the pool.
InitCount ==
    /\ pool = NewPool
    /\ stack = [t \in Threads |-> << >>]
    /\ curPID = [t \in Threads |-> t]
    /\ held = [t \in Threads |-> [e \in Slots |-> 0]]
    /\ ds = [h \in Handles |-> [state |-> "closed", file |-> ""]]
    /\ nRefCountUnderlyingMainRasterBand =
          [p \in Proxies |-> [c \in ChildBands |-> 0]]
    /\ singleton = [alive |-> FALSE, refCount |-> 0, nDeletes |-> 0]
    /\ refCountOfDisabledRefCount = [t \in Threads |-> 0]
    /\ members =
          [p \in Proxies |->
              [ constructed |-> NoProxy.constructed,
                pszProjectionRef |-> NoProxy.pszProjectionRef,
                m_bHasSrcGeoTransform |-> NoProxy.m_bHasSrcGeoTransform,
                m_bHasSrcSRS |-> NoProxy.m_bHasSrcSRS,
                metadataSet |-> NoProxy.metadataSet,
                metadataItemSet |-> NoProxy.metadataItemSet,
                freed |-> NoProxy.freed,
                nBlockXSize |-> NoProxy.nBlockXSize,
                nBlockYSize |-> NoProxy.nBlockYSize,
                counted |-> FALSE ]]

\* the constructor of proxy p, run by thread t: GDALDatasetPool::Ref
CountedConstructor(t, p) ==
    /\ MakesProxies(t)
    /\ CanLock(t)
    /\ ~members[p].constructed
    /\ singleton.refCount < MaxRefs
    /\ pool' = IF singleton.alive THEN pool ELSE NewPool
    /\ singleton' =
          IF singleton.alive
          THEN [singleton EXCEPT !.refCount =
                                    IF Suppressed(t) THEN @ ELSE @ + 1]
          ELSE [alive |-> TRUE,
                refCount |-> IF Suppressed(t) THEN 0 ELSE 1, nDeletes |-> 0]
    /\ members' = [members EXCEPT ![p].constructed = TRUE,
                                  ![p].counted = ~Suppressed(t)]
    /\ UNCHANGED << stack, curPID, held, ds, nRefCountUnderlyingMainRasterBand,
                    refCountOfDisabledRefCount >>

\* the destructor of proxy p, run by thread t: CloseDatasetIfZeroRefCount
\* finds no dataset, and GDALDatasetPool::Unref
CountedDestructor(t, p) ==
    /\ MakesProxies(t)
    /\ CanLock(t)
    /\ members[p].constructed
    /\ singleton.refCount > -MaxRefs
    /\ members' = [members EXCEPT ![p].constructed = FALSE,
                                  ![p].counted = FALSE]
    /\ IF ~singleton.alive \/ Suppressed(t)
       THEN UNCHANGED << pool, stack, curPID, held, ds,
                         nRefCountUnderlyingMainRasterBand, singleton,
                         refCountOfDisabledRefCount >>
       ELSE IF singleton.refCount - 1 # 0
       THEN /\ singleton' = [singleton EXCEPT !.refCount = @ - 1]
            /\ UNCHANGED << pool, stack, curPID, held, ds,
                            nRefCountUnderlyingMainRasterBand,
                            refCountOfDisabledRefCount >>
       ELSE /\ Delete(t, stack[t])
            /\ UNCHANGED << held, nRefCountUnderlyingMainRasterBand,
                            refCountOfDisabledRefCount >>

NextCount ==
    \/ \E t \in Threads : \E p \in ProxyFixture : CountedConstructor(t, p)
    \/ \E t \in Threads : \E p \in ProxyFixture : CountedDestructor(t, p)
    \/ \E t \in Threads : PreventDestroy(t)
    \/ \E t \in Threads : ForceDestroy(t)

SpecCount == InitCount /\ [][NextCount]_vars

(* ======================== properties of the pool ======================== *)

TopOf(st, t) == st[t][Len(st[t])]
\* _RefDataset has returned on thread t and RefUnderlyingDataset has yet to
\* look at the result
Returned(st, t) == st[t] # << >> /\ TopOf(st, t).kind = "ret"
\* the step in which _RefDataset returns on thread t
Returns(t) == ~Returned(stack, t) /\ Returned(stack', t)
\* the step in which thread t calls RefUnderlyingDataset
Calls(t) ==
    /\ Len(stack'[t]) = Len(stack[t]) + 1
    /\ TopOf(stack', t).tag # "idle"
KeyOf(r) == GetFilenameAndOpenOptions(r.pszFileName, r.papszOpenOptions)
\* the entries behind position i of the list (nearer the tail)
Behind(P, i) == { ListOrder(P)[j] : j \in (i + 1) .. Len(ListOrder(P)) }
PositionOf(P, e) == CHOOSE i \in 1 .. Len(ListOrder(P)) : ListOrder(P)[i] = e
InList(P, e) == \E i \in 1 .. Len(ListOrder(P)) : ListOrder(P)[i] = e
Quiescent ==
    \A t \in Threads : stack[t] = << >> /\ \A e \in Slots : held[t][e] = 0

(* C1 as stated: every entry returned by the pool's RefDataset has a dataset.  *)
C1_ReturnedEntryHasDataset ==
    \A t \in Threads :
        Returned(stack, t) /\ Top(t).e # NULL => pool.entries[Top(t).e].poDS # NULL

(* C1, amended: the entry RefDataset returns has a refCount one above its    *)
(* value before the call (1 for a slot it opened); and an entry is kept by   *)
(* RefUnderlyingDataset only with its dataset there, the reference counted.  *)
C1_ReturnedEntryCounted ==
    [][ /\ \A t \in Threads :
              Returns(t) /\ TopOf(stack', t).e # NULL =>
                  LET f == TopOf(stack', t)
                  IN pool'.entries[f.e].refCount =
                        IF f.tag = "hit" THEN pool.entries[f.e].refCount + 1 ELSE 1
        /\ \A t \in Threads, e \in Slots :
              held'[t][e] > 0 =>
                  /\ pool'.entries[e].poDS # NULL
                  /\ pool'.entries[e].refCount >= 1 ]_vars

C1_Witness ==
    \E t \in Threads :
        /\ Returned(stack, t)
        /\ Top(t).tag = "hit"
        /\ pool.entries[Top(t).e].poDS # NULL
        /\ pool.entries[Top(t).e].refCount = 2

(* C2: an entry whose refCount is not 0 keeps its key and its dataset, and   *)
(* its dataset is not closed, whatever step any thread takes.                *)
C2_NonZeroRefCountNotEvicted ==
    [][ \A e \in Slots :
            pool.entries[e].refCount # 0 =>
                /\ pool'.entries[e].pszFileNameAndOpenOptions =
                       pool.entries[e].pszFileNameAndOpenOptions
                /\ pool.entries[e].poDS # NULL =>
                       /\ pool'.entries[e].poDS = pool.entries[e].poDS
                       /\ ds'[pool.entries[e].poDS] = ds[pool.entries[e].poDS] ]_vars

C2_Witness ==
    \E t \in Threads :
        /\ InClose(t)
        /\ Top(t).tag \in {"recycle", "ram"}
        /\ pool.lastEntry # Top(t).e
        /\ pool.entries[pool.lastEntry].refCount # 0
        /\ pool.entries[pool.lastEntry].poDS # NULL

(* C3: nRAMUsage of the pool is the sum of nRAMUsage over the entries of the *)
(* list, in every state.                                                     *)
C3_RamUsageIsSum ==
    pool.nRAMUsage =
        SumOver([e \in Slots |-> pool.entries[e].nRAMUsage],
                { e \in Slots : InList(pool, e) })

C3_Witness ==
    /\ pool.nRAMUsage = 60
    /\ \E t \in Threads : InClose(t) /\ Top(t).tag = "ram"

\* the frames, of any thread, that refer to entry e
FramesOn(e) ==
    { << t, i >> \in Threads \X (1 .. MaxDepth) :
        i <= Len(stack[t]) /\ stack[t][i].e = e }

(* C4: an entry whose open is in flight (refCount -1) belongs to the one     *)
(* call that is inside GDALDataset::Open for it: no other call has it as its *)
(* result or as its eviction candidate, and no thread holds it.              *)
C4_InFlightEntryNotShared ==
    /\ \A e \in Slots :
          pool.entries[e].refCount = -1 =>
              /\ Cardinality(FramesOn(e)) = 1
              /\ \A x \in FramesOn(e) : stack[x[1]][x[2]].kind = "open"
              /\ \A t \in Threads : held[t][e] = 0
    /\ \A t \in Threads : \A i \in 1 .. Len(stack[t]) :
          stack[t][i].kind = "open" => pool.entries[stack[t][i].e].refCount = -1

\* two slots with the same key, owner and responsible PID, one being opened
\* and the other given to a second request meanwhile
C4_Witness ==
    \E e1, e2 \in Slots :
        /\ e1 # e2
        /\ pool.entries[e1].refCount = -1
        /\ pool.entries[e2].refCount # 0
        /\ pool.entries[e1].pszFileNameAndOpenOptions # NullStr
        /\ pool.entries[e1].pszFileNameAndOpenOptions =
               pool.entries[e2].pszFileNameAndOpenOptions
        /\ pool.entries[e1].pszOwner = pool.entries[e2].pszOwner
        /\ pool.entries[e1].responsiblePID = pool.entries[e2].responsiblePID

\* the step in which thread t installs its request in a slot and calls
\* GDALDataset::Open: on entry to RefDataset, or once the slot to recycle was
\* closed
Installs(t) ==
    /\ stack'[t] # << >>
    /\ TopOf(stack', t).kind = "open"
    /\ \/ Len(stack'[t]) = Len(stack[t]) + 1
       \/ Len(stack'[t]) = Len(stack[t]) /\ TopOf(stack, t).kind = "close"

(* C5 as stated: the entry RefDataset returns is the head of the list when   *)
(* the call returns.                                                         *)
C5_ReturnedEntryIsHead ==
    [][ \A t \in Threads :
            Returns(t) /\ TopOf(stack', t).e # NULL =>
                pool'.firstEntry = TopOf(stack', t).e ]_vars

(* C5, amended: an entry returned on a hit is the head when the call         *)
(* returns; a prepended or recycled slot is the head when it is installed    *)
(* and GDALDataset::Open is called.                                          *)
C5_HeadOnHitAndInstall ==
    [][ \A t \in Threads :
            /\ Returns(t) /\ TopOf(stack', t).tag = "hit" =>
                   pool'.firstEntry = TopOf(stack', t).e
            /\ Installs(t) => pool'.firstEntry = TopOf(stack', t).e ]_vars

C5_Witness ==
    \E t, u \in Threads :
        /\ Returned(stack, t)
        /\ Top(t).tag = "hit"
        /\ Top(t).e = 1
        /\ pool.firstEntry = 1
        /\ pool.entries[1].next # NULL
        /\ InOpen(u)
        /\ Top(u).tag = "recycled"

\* candidate is, in list P, the entry nearest the tail with refCount 0 (and,
\* for the RAM loop, with a RAM estimate)
TailMost(P, candidate, bRAM) ==
    /\ InList(P, candidate)
    /\ P.entries[candidate].refCount = 0
    /\ bRAM => P.entries[candidate].nRAMUsage > 0
    /\ \A e \in Behind(P, PositionOf(P, candidate)) :
          \/ P.entries[e].refCount # 0
          \/ bRAM /\ P.entries[e].nRAMUsage = 0

\* in this step thread t chooses a candidate and calls GDALClose for it
StartsClose(t, tag) ==
    /\ stack'[t] # stack[t]
    /\ Len(stack'[t]) >= Len(stack[t])
    /\ stack'[t] # << >>
    /\ TopOf(stack', t).kind = "close"
    /\ TopOf(stack', t).tag = tag

(* C6: the slot recycled when the pool is full is the refCount-0 entry       *)
(* nearest the tail and it ends at the head; the RAM loop closes the entry   *)
(* nearest the tail among those with refCount 0 and a RAM estimate.          *)
C6_VictimIsLeastRecentlyUsed ==
    [][ \A t \in Threads :
            /\ StartsClose(t, "recycle") =>
                   TailMost(pool, TopOf(stack', t).e, FALSE)
            /\ Calls(t) /\ TopOf(stack', t).tag = "recycled" =>
                   /\ TailMost(pool, TopOf(stack', t).e, FALSE)
                   /\ pool.currentSize = maxSize
            /\ Installs(t) /\ TopOf(stack', t).tag = "recycled" =>
                   /\ pool'.firstEntry = TopOf(stack', t).e
                   /\ pool'.currentSize = maxSize
            /\ StartsClose(t, "ram") =>
                   /\ TailMost([pool EXCEPT !.entries[TopOf(stack', t).cur].refCount = 1],
                               TopOf(stack', t).e, TRUE)
                   /\ TopOf(stack', t).e # TopOf(stack', t).cur ]_vars

\* the example: A and B were used and released, C recycles the slot of A and
\* the pool holds B and C, C at the head
C6_Witness ==
    \E t \in Threads :
        /\ InOpen(t)
        /\ Top(t).tag = "recycled"
        /\ Top(t).req.pszFileName = "C"
        /\ pool.firstEntry = Top(t).e
        /\ pool.lastEntry # Top(t).e
        /\ pool.entries[pool.lastEntry].pszFileNameAndOpenOptions = CPLStrdup("B")
        /\ pool.entries[pool.lastEntry].refCount = 0
        /\ pool.entries[pool.lastEntry].poDS # NULL

\* no entry of the list matches request r
NoMatch(P, r) ==
    \A e \in Slots : InList(P, e) => ~Matches(P, e, r, r.responsiblePID)
FullAndPinned(P) ==
    /\ P.currentSize = maxSize
    /\ \A e \in Slots : InList(P, e) => P.entries[e].refCount # 0

(* C7: a call with bForceOpen that matches no entry fails for want of a slot *)
(* exactly when the pool is full and no entry has refCount 0, and then it    *)
(* changes nothing.                                                          *)
C7_ExhaustedIffFullAndPinned ==
    [][ \A t \in Threads :
            Calls(t) =>
                LET f == TopOf(stack', t)
                IN /\ f.tag = "exhausted" =>
                        /\ f.req.bForceOpen
                        /\ NoMatch(pool, f.req)
                        /\ FullAndPinned(pool)
                        /\ f.e = NULL
                        /\ pool' = pool /\ held' = held /\ ds' = ds
                        /\ curPID' = curPID
                   /\ f.tag \in {"fresh", "recycled", "recycle"} =>
                        /\ f.req.bForceOpen
                        /\ NoMatch(pool, f.req)
                        /\ ~FullAndPinned(pool) ]_vars

C7_Witness ==
    \E t \in Threads :
        /\ Returned(stack, t)
        /\ Top(t).tag = "exhausted"
        /\ \E u \in Threads : \E e \in Slots : held[u][e] > 0

(* C8: a shared request is answered with an entry of the same key, the same  *)
(* responsible PID and an equal owner whenever the list holds one that is    *)
(* not being opened, its refCount going up by one; it is never answered with *)
(* a pinned entry whose owner or responsible PID differs.                    *)
SharedMatch(P, e, r) ==
    /\ InList(P, e)
    /\ P.entries[e].refCount >= 0
    /\ P.entries[e].pszFileNameAndOpenOptions = CPLStrdup(KeyOf(r))
    /\ P.entries[e].responsiblePID = r.responsiblePID
    /\ P.entries[e].pszOwner = r.pszOwner

C8_SharedMatching ==
    [][ \A t \in Threads :
            Calls(t) /\ TopOf(stack', t).tag # "miss"
                     /\ TopOf(stack', t).req.bShared =>
                LET f == TopOf(stack', t)
                IN /\ (\E e \in Slots : SharedMatch(pool, e, f.req)) =>
                        /\ f.tag = "hit"
                        /\ SharedMatch(pool, f.e, f.req)
                        /\ pool'.entries[f.e].refCount =
                               pool.entries[f.e].refCount + 1
                   /\ \A e \in Slots :
                        /\ InList(pool, e)
                        /\ pool.entries[e].refCount > 0
                        /\ ~SharedMatch(pool, e, f.req)
                        => f.e # e ]_vars

C8_Witness ==
    \E t \in Threads :
        /\ Returned(stack, t)
        /\ Top(t).tag = "hit"
        /\ Top(t).req.bShared
        /\ pool.entries[Top(t).e].refCount = 2
        /\ \E e \in Slots :
              /\ e # Top(t).e
              /\ pool.entries[e].pszFileNameAndOpenOptions =
                     pool.entries[Top(t).e].pszFileNameAndOpenOptions
              /\ pool.entries[e].refCount > 0

(* C9: a request that is not shared is never answered with an entry whose    *)
(* refCount was above 0 (or -1) when it was made: it reuses an entry of its  *)
(* key with refCount 0, or takes a new slot or a recycled one.               *)
C9_ExclusiveMatching ==
    [][ \A t \in Threads :
            Calls(t) /\ ~TopOf(stack', t).req.bShared
                     /\ TopOf(stack', t).e # NULL =>
                LET f == TopOf(stack', t)
                IN /\ f.tag = "hit" =>
                        /\ pool.entries[f.e].refCount = 0
                        /\ pool.entries[f.e].pszFileNameAndOpenOptions =
                               CPLStrdup(KeyOf(f.req))
                   /\ f.tag # "hit" =>
                        \/ ~InList(pool, f.e)
                        \/ pool.entries[f.e].refCount = 0 ]_vars

C9_Witness ==
    \E t \in Threads :
        /\ stack[t] # << >>
        /\ Top(t).kind = "open"
        /\ ~Top(t).req.bShared
        /\ \E e \in Slots :
              /\ e # Top(t).e
              /\ pool.entries[e].refCount > 0
              /\ pool.entries[e].pszFileNameAndOpenOptions =
                     CPLStrdup(KeyOf(Top(t).req))

\* the references on entry e that are accounted for: those of the holders,
\* those of the calls that have returned it and those of the calls that
\* opened it and are in their RAM loop
Accounted(e) ==
    SumOver([t \in Threads |-> held[t][e]], Threads)
    + Cardinality({ x \in FramesOn(e) : stack[x[1]][x[2]].kind = "ret" })
    + Cardinality({ x \in Threads \X (1 .. MaxDepth) :
                      /\ x[2] <= Len(stack[x[1]])
                      /\ stack[x[1]][x[2]].kind = "close"
                      /\ stack[x[1]][x[2]].tag = "ram"
                      /\ stack[x[1]][x[2]].cur = e })

(* C10: the refCount of an entry is the number of acquisitions of it that    *)
(* were not released yet (-1 while it is being opened); so when every call   *)
(* has returned and every acquisition was released every refCount is 0.      *)
C10_BalancedMeansUnpinned ==
    /\ \A e \in Slots :
          pool.entries[e].refCount =
              IF \E x \in FramesOn(e) : stack[x[1]][x[2]].kind = "open"
              THEN -1 ELSE Accounted(e)
    /\ Quiescent => \A e \in Slots : pool.entries[e].refCount = 0

\* all is released, after a failed open left its slot behind
C10_Witness ==
    /\ Quiescent
    /\ pool.currentSize = maxSize
    /\ \E e \in Slots :
          /\ pool.entries[e].pszFileNameAndOpenOptions # NullStr
          /\ pool.entries[e].poDS = NULL
    /\ \E e \in Slots : pool.entries[e].poDS # NULL

\* the step in which a _RefDataset call of thread t that opened its dataset
\* returns
OpenedReturns(t) ==
    /\ Returns(t)
    /\ TopOf(stack', t).tag = "opened"
    /\ pool'.entries[TopOf(stack', t).e].poDS # NULL

\* an entry other than cur that the RAM loop could close
Evictable(P, cur) ==
    { e \in Slots : /\ e # cur
                     /\ InList(P, e)
                     /\ P.entries[e].refCount = 0
                     /\ P.entries[e].nRAMUsage > 0 }

\* the RAM loop does not close the dataset of the entry just opened
OpenedStaysOpen ==
    \A t \in Threads :
        StartsClose(t, "ram") =>
            /\ TopOf(stack', t).e # TopOf(stack', t).cur
            /\ TopOf(stack', t).h # pool'.entries[TopOf(stack', t).cur].poDS
            /\ ds'[pool'.entries[TopOf(stack', t).cur].poDS].state = "open"

(* C11 as stated: when a call that opened a dataset returns, nRAMUsage is at *)
(* most nMaxRAMUsage or no other entry has refCount 0 and a RAM estimate;    *)
(* the RAM loop does not close the dataset just opened.                      *)
C11_RamBelowMaxAfterOpen ==
    [][ /\ \A t \in Threads :
              OpenedReturns(t) =>
                  \/ pool'.nRAMUsage <= nMaxRAMUsage
                  \/ Evictable(pool', TopOf(stack', t).e) = {}
        /\ OpenedStaysOpen ]_vars

(* C11, amended: the same, for a call whose opened dataset reported a RAM    *)
(* estimate above 0 (nMaxRAMUsage being above 0); otherwise the loop is not  *)
(* entered.                                                                  *)
C11_RamBelowMaxAfterSizedOpen ==
    [][ /\ \A t \in Threads :
              /\ OpenedReturns(t)
              /\ nMaxRAMUsage > 0
              /\ pool'.entries[TopOf(stack', t).e].nRAMUsage > 0
              => \/ pool'.nRAMUsage <= nMaxRAMUsage
                 \/ Evictable(pool', TopOf(stack', t).e) = {}
        /\ OpenedStaysOpen ]_vars

\* the example: A (60 bytes) was used and released, a second dataset of 60
\* bytes is opened and the loop closes A, whose slot stays in the list
C11_Witness ==
    \E t \in Threads :
        /\ InClose(t)
        /\ Top(t).tag = "ram"
        /\ Top(t).e # Top(t).cur
        /\ InList(pool, Top(t).e)
        /\ ds[Top(t).h].state = "closing"
        /\ ds[Top(t).h].file = "A"
        /\ pool.entries[Top(t).cur].nRAMUsage = 60
        /\ pool.entries[Top(t).cur].poDS # NULL
        /\ ds[pool.entries[Top(t).cur].poDS].state = "open"
        /\ pool.nRAMUsage = 60

\* the step in which RefUnderlyingDataset of thread t reports the failure of
\* the open its RefDataset call made
ReportsOpenFailure(t) ==
    /\ Returned(stack, t)
    /\ Top(t).tag = "opened"
    /\ pool.entries[Top(t).e].poDS = NULL
    /\ Len(stack'[t]) = Len(stack[t]) - 1

(* C12: when the open failed and the failure is reported, the slot is in the *)
(* list with no dataset, refCount 0, no key and no RAM estimate, so that no  *)
(* request matches it.                                                       *)
C12_FailedOpenClearsSlot ==
    [][ \A t \in Threads :
            ReportsOpenFailure(t) =>
                LET e == Top(t).e
                IN /\ InList(pool', e)
                   /\ pool'.entries[e].poDS = NULL
                   /\ pool'.entries[e].refCount = 0
                   /\ pool'.entries[e].nRAMUsage = 0
                   /\ pool'.entries[e].pszFileNameAndOpenOptions = NullStr
                   /\ \A r \in Requests : ~Matches(pool', e, r, r.responsiblePID) ]_vars

\* in this step thread t calls GDALClose, from any of the places that do
StartsAnyClose(t) ==
    \E tag \in {"recycle", "ram", "idle", "teardown"} : StartsClose(t, tag)

(* C13: GDALClose is called for the dataset of an entry while the            *)
(* responsible PID of the calling thread is the one recorded in the entry,   *)
(* under which GDALDataset::Open ran for it; and when a pool operation       *)
(* returns the responsible PID of the thread is the one it had on entry.     *)
C13_CloseUnderOpenerPID ==
    [][ \A t \in Threads :
            /\ StartsAnyClose(t) =>
                   curPID'[t] = pool.entries[TopOf(stack', t).e].responsiblePID
            /\ Installs(t) =>
                   curPID'[t] = pool'.entries[TopOf(stack', t).e].responsiblePID
            /\ Len(stack'[t]) = Len(stack[t]) + 1 =>
                   TopOf(stack', t).savedPID = curPID[t]
            /\ Len(stack'[t]) = Len(stack[t]) - 1 =>
                   curPID'[t] = TopOf(stack, t).savedPID
            /\ stack'[t] = << >> => curPID'[t] = t ]_vars

\* the destructor of the pool, run by thread 2, closes a dataset that was
\* opened under the responsible PID 1
C13_Witness ==
    /\ InClose(2)
    /\ Top(2).tag = "teardown"
    /\ Top(2).savedPID = 2
    /\ curPID[2] = 1
    /\ pool.entries[Top(2).e].responsiblePID = 1
    /\ ds[Top(2).h].state = "closing"

\* thread t is inside GDALDataset::Open and calls the pool in this step
NestedCall(t) == InOpen(t) /\ Calls(t)

(* C14: a call made by the opener of X while X is being opened gets a slot   *)
(* other than the slot of X, a new one if the pool is not full; when the     *)
(* outer call returns the slot of X has the dataset its opener returned and  *)
(* refCount 1, and what the thread acquired meanwhile is still pinned.       *)
C14_ReentrantOpen ==
    [][ \A t \in Threads :
            /\ NestedCall(t) =>
                   LET f == TopOf(stack', t)
                   IN /\ f.e # Top(t).e
                      /\ pool'.entries[Top(t).e].refCount = -1
                      /\ pool'.entries[Top(t).e].poDS = NULL
                      /\ pool'.entries[Top(t).e].pszFileNameAndOpenOptions =
                            pool.entries[Top(t).e].pszFileNameAndOpenOptions
                      /\ f.req.bForceOpen /\ NoMatch(pool, f.req)
                            /\ pool.currentSize < maxSize =>
                             f.tag = "fresh" /\ f.e = pool.currentSize + 1
            /\ OpenedReturns(t) =>
                   LET e == TopOf(stack', t).e
                       poDS == pool'.entries[e].poDS
                   IN /\ pool'.entries[e].refCount = 1
                      /\ ds'[poDS].state = "open"
                      /\ ds'[poDS].file = TopOf(stack', t).req.pszFileName
                      /\ \A y \in Slots \ {e} :
                            /\ pool'.entries[y].poDS # poDS
                            /\ held[t][y] > 0 =>
                                  /\ pool'.entries[y].refCount >= held[t][y]
                                  /\ pool'.entries[y].poDS = pool.entries[y].poDS
                                  /\ pool'.entries[y].poDS # NULL ]_vars

\* thread 1 opened "C", whose opener acquired its source "A" meanwhile: it
\* holds both, each with refCount 1, in the two slots of the pool
C14_Witness ==
    /\ stack[1] = << >>
    /\ held[1] = [e \in Slots |-> 1]
    /\ \E x, y \in Slots :
          /\ x # y
          /\ pool.entries[x].pszFileNameAndOpenOptions = CPLStrdup("C")
          /\ pool.entries[y].pszFileNameAndOpenOptions = CPLStrdup("A")
          /\ pool.entries[x].refCount = 1
          /\ pool.entries[y].refCount = 1
          /\ pool.entries[x].poDS # NULL
          /\ pool.entries[y].poDS # NULL
          /\ pool.entries[x].poDS # pool.entries[y].poDS

\* thread t gives entry e back in this step: UnrefUnderlyingDataset by a
\* holder, or RefUnderlyingDataset that got an entry without dataset
Releases(t, e) ==
    \/ held'[t][e] = held[t][e] - 1
    \/ /\ Returned(stack, t)
       /\ TopOf(stack, t).e = e
       /\ pool.entries[e].poDS = NULL
       /\ stack' = Pop(t)

(* C15: a release takes exactly 1 from the refCount of the released entry    *)
(* and changes nothing else in the pool: no other field of the entry, no     *)
(* other entry, not the list, not the RAM total, no dataset.                 *)
C15_ReleaseOnlyDecrements ==
    [][ \A t \in Threads : \A e \in Slots :
            Releases(t, e) =>
                /\ pool'.entries[e].refCount = pool.entries[e].refCount - 1
                /\ pool' = [pool EXCEPT !.entries[e].refCount = @ - 1]
                /\ ds' = ds
                /\ curPID' = curPID ]_vars

\* an open dataset with a RAM estimate that was acquired and given back
C15_Witness ==
    \E e \in Slots :
        /\ pool.entries[e].poDS # NULL
        /\ pool.entries[e].nRAMUsage > 0
        /\ pool.entries[e].refCount = 0
        /\ \A t \in Threads : held[t][e] = 0 /\ stack[t] = << >>

(* C16: a release of an entry with refCount 0 does not take the refCount     *)
(* below 0, so that refCount = -1 is seen only on an entry whose open is in  *)
(* flight and every other entry has refCount >= 0.                           *)
C16_NegativeOnlyInFlight ==
    \A e \in Slots :
        /\ pool.entries[e].refCount >= -1
        /\ pool.entries[e].refCount = -1 => OpenInFlight(e)

\* entry cur has the key and the owner of request r
SameKeyAndOwner(P, cur, r) ==
    /\ P.entries[cur].pszFileNameAndOpenOptions =
          CPLStrdup(GetFilenameAndOpenOptions(r.pszFileName, r.papszOpenOptions))
    /\ SameOwner(r.pszOwner, P.entries[cur].pszOwner)

(* C17: CloseDatasetIfZeroRefCount calls GDALClose only for an entry with    *)
(* the key and the owner of the proxy, refCount 0 and a dataset; the entry   *)
(* is then without dataset, key and RAM estimate, the RAM total is reduced   *)
(* by that estimate and nothing else in the pool changes.  When no entry     *)
(* qualifies, no dataset is closed.                                          *)
C17_CloseIfIdle ==
    [][ \A t \in Threads :
            /\ StartsClose(t, "idle") =>
                   LET f == TopOf(stack', t)
                       cur == f.e
                   IN /\ SameKeyAndOwner(pool, cur, f.req)
                      /\ pool.entries[cur].refCount = 0
                      /\ pool.entries[cur].poDS # NULL
                      /\ f.h = pool.entries[cur].poDS
                      /\ ds[f.h].state = "open"
                      /\ ds' = [ds EXCEPT ![f.h].state = "closing"]
                      /\ pool' =
                           [pool EXCEPT
                              !.nRAMUsage = @ - pool.entries[cur].nRAMUsage,
                              !.entries[cur] =
                                  [@ EXCEPT !.poDS = NULL,
                                            !.pszFileNameAndOpenOptions = NullStr,
                                            !.pszOwner = NullStr,
                                            !.nRAMUsage = 0]]
            /\ (\A r \in Requests : CloseIfIdleTarget(pool, r) = NULL) =>
                   ~StartsClose(t, "idle") ]_vars

\* _CloseDatasetIfZeroRefCount is closing an idle dataset that had a RAM
\* estimate, while another entry with the same key is referenced and stays
C17_Witness ==
    \E t \in Threads :
        /\ InClose(t)
        /\ Top(t).tag = "idle"
        /\ ds[Top(t).h].state = "closing"
        /\ pool.entries[Top(t).e].poDS = NULL
        /\ pool.entries[Top(t).e].pszFileNameAndOpenOptions = NullStr
        /\ \E y \in Slots \ {Top(t).e} :
              /\ pool.entries[y].pszFileNameAndOpenOptions =
                    CPLStrdup(Top(t).req.pszFileName)
              /\ pool.entries[y].refCount = 1
              /\ pool.entries[y].poDS # NULL
              /\ pool.nRAMUsage = pool.entries[y].nRAMUsage
              /\ pool.nRAMUsage > 0

(* C18: a call with bForceOpen false that finds no matching entry returns    *)
(* nullptr and changes nothing: no slot is taken, nothing is evicted, closed *)
(* or opened, no refCount and no list position changes.  Only a call with    *)
(* bForceOpen true goes on to take a slot, evict, or report exhaustion.      *)
C18_NoOpenUnlessForced ==
    [][ \A t \in Threads :
            Calls(t) =>
                LET f == TopOf(stack', t)
                IN /\ f.tag \in {"miss", "destroyed"} =>
                        /\ f.kind = "ret" /\ f.e = NULL
                        /\ pool' = pool /\ ds' = ds /\ curPID' = curPID
                        /\ held' = held
                   /\ f.tag = "hit" => ~NoMatch(pool, f.req)
                   /\ f.tag \notin {"miss", "destroyed", "hit"} =>
                        f.req.bForceOpen ]_vars

\* a call with bForceOpen false has just returned nullptr although the pool
\* is full and has an idle dataset that a forced call would have evicted
C18_Witness ==
    \E t \in Threads :
        /\ Returned(stack, t)
        /\ Top(t).tag = "miss"
        /\ pool.currentSize = maxSize
        /\ \E e \in Slots : pool.entries[e].refCount = 0
                              /\ pool.entries[e].poDS # NULL

\* the step in which an operation of thread t returns to its caller
OpReturns(t) == InOp(t, "end") /\ stack' = Pop(t)

(* C19: an operation of a proxy dataset or of its band, and Create, gives    *)
(* back exactly what it took, whether the dataset was referenced or the open *)
(* failed, the pool was exhausted or the band was missing: when it returns   *)
(* in a single-threaded run, every entry has the refCount it had at the      *)
(* call, and the thread holds what it held.                                  *)
C19_OperationBalanced ==
    [][ OpReturns(Main) /\ Top(Main).tag \in {"dataset", "band", "create"} =>
            /\ RefCounts(pool') = Top(Main).before
            /\ held'[Main] = Top(Main).heldBefore ]_vars

\* a band operation is about to return after it referenced an open dataset
\* and did not find its band: the dataset stays, unreferenced
C19_Witness ==
    /\ InOp(Main, "end")
    /\ Top(Main).tag = "band"
    /\ Top(Main).result = "missing band"
    /\ pool.entries[Top(Main).e].poDS # NULL
    /\ pool.entries[Top(Main).e].refCount = 0
    /\ pool.currentSize = maxSize

(* C20: an operation of an overview or mask band references the dataset      *)
(* through the main band exactly once while it works, and when it returns -  *)
(* also when the main band was referenced and the overview or mask band was  *)
(* not found, and when nothing could be referenced - every entry's refCount  *)
(* and the band's nRefCountUnderlyingMainRasterBand are what they were at    *)
(* the call, so that the counter is 0 when no operation is in progress.      *)
C20_ChildBandBalanced ==
    [][ /\ InOp(Main, "use") /\ Top(Main).tag \in ChildBands =>
            /\ pool.entries[Top(Main).e].refCount =
                 Top(Main).before[Top(Main).e] + 1
            /\ nRefCountUnderlyingMainRasterBand[Top(Main).proxy][Top(Main).tag] =
                 Top(Main).nBefore[Top(Main).tag] + 1
        /\ OpReturns(Main) /\ Top(Main).tag \in ChildBands =>
            /\ RefCounts(pool') = Top(Main).before
            /\ nRefCountUnderlyingMainRasterBand'[Top(Main).proxy] =
                 Top(Main).nBefore
            /\ nRefCountUnderlyingMainRasterBand'[Top(Main).proxy][Top(Main).tag] = 0
      ]_vars

(* ================== properties of the references on the pool ============ *)

\* the step in which ~GDALDatasetPool is entered
DeleteStarts ==
    \/ ~pool.bInDestruction /\ pool'.bInDestruction
    \/ singleton'.nDeletes > singleton.nDeletes

(* C23 as stated: while the counter of some thread is not zero (a            *)
(* PreventDestroy is outstanding), no Unref by any thread destroys the pool. *)
C23_NoUnrefDestroysWhilePrevented ==
    [][(\E u \in Threads : refCountOfDisabledRefCount[u] # 0)
        => ~(\E t \in Threads : GDALDatasetPoolUnref(t) /\ DeleteStarts)]_vars

(* C23, amended: the counter is per thread.  While the counter of thread t   *)
(* is not zero, no Unref issued by t changes the refCount of the pool or      *)
(* destroys the pool; the pool is destroyed only by ForceDestroy or by an     *)
(* Unref of a thread whose own counter is zero.                               *)
C23_NoUnrefOfPreventingThreadDestroys ==
    [][/\ \A t \in Threads :
             refCountOfDisabledRefCount[t] # 0 /\ GDALDatasetPoolUnref(t)
                => ~DeleteStarts /\ singleton' = singleton
       /\ DeleteStarts =>
             \E u \in Threads :
                \/ ForceDestroy(u)
                \/ refCountOfDisabledRefCount[u] = 0
                      /\ GDALDatasetPoolUnref(u)]_vars

\* thread Main has a PreventDestroy outstanding on its shutdown path while one
\* reference is left on the pool, and thread 2 is free to give it back
C23_Witness ==
    /\ singleton.alive
    /\ singleton.refCount = 1
    /\ refCountOfDisabledRefCount[Main] = 1
    /\ refCountOfDisabledRefCount[2] = 0
    /\ InShutdown(Main)
    /\ ENABLED GDALDatasetPoolUnref(Main)

\* the step in which ForceDestroy is called by thread t on its shutdown path
\* (when it deletes the pool, the destructor runs from this step on)
ForceDestroyCalled(t) ==
    /\ InShutdown(t)
    /\ \A i \in 1 .. Len(stack'[t]) : stack'[t][i].kind # "shutdown"

(* C24 as stated: a ForceDestroy that follows a PreventDestroy on the same   *)
(* thread leaves the counter of that thread at the value it had before        *)
(* PreventDestroy and the pool destroyed (singleton is nullptr or its        *)
(* destructor runs, no dataset is open once it is nullptr), whatever the      *)
(* other thread                                                                *)
(* did with Ref and Unref in between.                                         *)
C24_ForceDestroyBalancesAndDestroys ==
    [][\A t \in Threads :
          ForceDestroyCalled(t) =>
             /\ refCountOfDisabledRefCount'[t] = Top(t).nBefore
             /\ singleton'.alive => pool'.bInDestruction
             /\ ~singleton'.alive =>
                   \A h \in Handles : ds'[h].state # "open"]_vars

\* the calls of GDALDataset::Open and GDALClose in progress on a thread around
\* which _RefDataset and _CloseDatasetIfZeroRefCount count
Bracketed(st) ==
    Cardinality({ i \in 1 .. Len(st) :
                     st[i].kind \in {"open", "close"} /\ st[i].tag # "teardown" })
\* the thread is on a shutdown path
Shutdowns(st) ==
    Cardinality({ i \in 1 .. Len(st) : st[i].kind = "shutdown" })

(* C30 as stated: a Ref or an Unref made by a thread (whose counter was zero *)
(* in user code) from inside a backend open or close that the pool performs  *)
(* (open, eviction close, CloseIfIdle close, teardown close) leaves the      *)
(* refCount of the pool unchanged and does not destroy the pool; and the     *)
(* counter of a thread only differs from its                                 *)
(* value in user code by the opens and closes in progress, so that it is     *)
(* back to that value when the pool operation returns.                       *)
C30_NestedRefUnrefSuppressed ==
    [][\A t \in Threads :
          /\ (InOpen(t) \/ InClose(t))
                /\ refCountOfDisabledRefCount[t] = Bracketed(stack[t])
                /\ (GDALDatasetPoolRef(t) \/ GDALDatasetPoolUnref(t))
             => singleton'.refCount = singleton.refCount /\ ~DeleteStarts
          /\ Shutdowns(stack'[t]) = Shutdowns(stack[t])
             => refCountOfDisabledRefCount'[t] - Bracketed(stack'[t])
                   = refCountOfDisabledRefCount[t] - Bracketed(stack[t])]_vars

\* thread t is inside a GDALClose called by ~GDALDatasetPool, and the step
\* leaves that call in progress: it is a step of the backend inside the close
InsideTeardownClose(t) ==
    /\ InClose(t)
    /\ Top(t).tag = "teardown"
    /\ \/ stack'[t] = stack[t]
       \/ Len(stack'[t]) > Len(stack[t])

(* C25 as stated: while the pool is being destroyed, a pool operation called *)
(* from inside a backend close (RefDataset, CloseDatasetIfZeroRefCount,      *)
(* UnrefDataset, Ref, Unref) does nothing: RefDataset returns nullptr, no    *)
(* dataset is opened or closed, no entry and no counter of the pool changes, *)
(* and the destructor is not entered again.                                  *)
C25_NoOpDuringDestruction ==
    [][\A t \in Threads :
          InsideTeardownClose(t) =>
             /\ pool' = pool
             /\ ds' = ds
             /\ singleton' = singleton
             /\ refCountOfDisabledRefCount' = refCountOfDisabledRefCount
             /\ ~DeleteStarts
             /\ Len(stack'[t]) > Len(stack[t]) =>
                   /\ TopOf(stack', t).kind = "ret"
                   /\ TopOf(stack', t).e = NULL]_vars

(* ============ properties of the members of a proxy dataset ============== *)

\* the pool holds the opened dataset of the file of proxy p
OpenFor(p) ==
    \E e \in Slots :
       /\ pool.entries[e].poDS # NULL
       /\ pool.entries[e].pszFileNameAndOpenOptions
             = CPLStrdup(GetFilenameAndOpenOptions(p.pszFileName,
                                                   p.papszOpenOptions))

\* the step in which user code on thread t calls the operation op of proxy p
OpCalled(t, op, p) ==
    /\ stack[t] = << >>
    /\ stack'[t] # << >>
    /\ stack'[t][1].kind = "op"
    /\ stack'[t][1].tag = op
    /\ stack'[t][1].proxy = p

\* the operation called in this step has returned the member what of the
\* proxy without RefUnderlyingDataset: nothing of the pool and no dataset
\* has changed
AnsweredByMember(t, what) ==
    /\ Len(stack'[t]) = 1
    /\ stack'[t][1].phase = "end"
    /\ stack'[t][1].result = what
    /\ pool' = pool
    /\ ds' = ds
    /\ held' = held

\* the operation called in this step has called RefUnderlyingDataset
AnsweredByBackend(t) ==
    /\ Len(stack'[t]) = 2
    /\ stack'[t][2].kind \in {"open", "close", "ret"}

\* C26: the constructor with the dimensions given makes no acquisition; while
\* the flag set from the spatial reference (geotransform) given to the
\* constructor is set, GetSpatialRef (GetGeoTransform) returns the member
\* with the pool and the datasets unchanged; SetSpatialRef (SetGeoTransform)
\* clears the flag, it is never set again, and with the flag cleared the get
\* goes through RefUnderlyingDataset
C26_SuppliedSrsAndGeoTransform ==
    [][\A p \in Proxies :
          /\ ~members[p].constructed /\ members'[p].constructed
                => /\ pool'.entries = pool.entries
                   /\ ds' = ds
                   /\ stack' = stack
                   /\ held' = held
                   /\ members'[p].m_bHasSrcSRS
                         = (members'[p].pszProjectionRef # NullStr)
          /\ \A t \in Threads :
                /\ OpCalled(t, "GetSpatialRef", p)
                      => IF members[p].m_bHasSrcSRS
                         THEN AnsweredByMember(t, "m_poSRS")
                         ELSE AnsweredByBackend(t)
                /\ OpCalled(t, "GetGeoTransform", p)
                      => IF members[p].m_bHasSrcGeoTransform
                         THEN AnsweredByMember(t, "m_gt")
                         ELSE AnsweredByBackend(t)
                /\ OpCalled(t, "SetSpatialRef", p)
                      => ~members'[p].m_bHasSrcSRS
                /\ OpCalled(t, "SetGeoTransform", p)
                      => ~members'[p].m_bHasSrcGeoTransform
          /\ members[p].constructed /\ ~members[p].m_bHasSrcSRS
                => ~members'[p].m_bHasSrcSRS
          /\ members[p].constructed /\ ~members[p].m_bHasSrcGeoTransform
                => ~members'[p].m_bHasSrcGeoTransform]_vars

\* C26 happens: a proxy constructed with a spatial reference and a
\* geotransform has had SetSpatialRef called, which opened its dataset, and
\* GetGeoTransform has just returned the geotransform of the constructor
C26_Witness ==
    \E p \in Proxies :
       /\ members[p].pszProjectionRef # NullStr
       /\ ~members[p].m_bHasSrcSRS
       /\ members[p].m_bHasSrcGeoTransform
       /\ stack[Main] # << >>
       /\ Top(Main).kind = "op"
       /\ Top(Main).tag = "GetGeoTransform"
       /\ Top(Main).proxy = p
       /\ Top(Main).result = "m_gt"
       /\ OpenFor(p)

\* the step in which RefUnderlyingRasterBand of the band of proxy p finds the
\* band of the opened dataset
BandAcquired(p) ==
    \E t \in Threads :
       /\ InOp(t, "got")
       /\ Top(t).tag = "band"
       /\ Top(t).proxy = p
       /\ Len(stack'[t]) = Len(stack[t])
       /\ stack'[t][Len(stack'[t])].phase = "use"

BlockSize(m) == << m.nBlockXSize, m.nBlockYSize >>

\* C27: a band declared with block size (0, 0) keeps it until
\* RefUnderlyingRasterBand finds the band of the opened dataset and takes the
\* block size of that band in that step; a band declared with both sizes
\* positive keeps them in every step
C27_BlockSizeLoadedOnce ==
    [][\A p \in Proxies :
          members[p].constructed =>
             /\ members[p].nBlockXSize > 0 /\ members[p].nBlockYSize > 0
                   => BlockSize(members'[p]) = BlockSize(members[p])
             /\ BlockSize(members[p]) = << 0, 0 >> /\ BandAcquired(p)
                   => BlockSize(members'[p])
                         = << GetBlockSize(p.pszFileName),
                              GetBlockSize(p.pszFileName) >>
             /\ BlockSize(members[p]) = << 0, 0 >> /\ ~BandAcquired(p)
                   => BlockSize(members'[p]) = << 0, 0 >>]_vars

\* C27 happens: the band of a proxy is in use with the block size of the
\* dataset's band, which is not a declared one
C27_Witness ==
    \E p \in Proxies :
       /\ InOp(Main, "use")
       /\ Top(Main).tag = "band"
       /\ Top(Main).proxy = p
       /\ BlockSize(members[p])
             = << GetBlockSize(p.pszFileName), GetBlockSize(p.pszFileName) >>
       /\ GetBlockSize(p.pszFileName) \notin DeclaredBlockSizes
       /\ OpenFor(p)

(* ============ properties of the metadata sets of a proxy ================ *)

\* the step in which GetMetadata or GetMetadataItem of thread t returns what
\* it got from the referenced dataset
MetadataReturns(t) ==
    /\ InOp(t, "got")
    /\ Top(t).tag \in MetadataOps
    /\ Len(stack'[t]) = Len(stack[t])
    /\ stack'[t][Len(stack'[t])].phase = "end"

\* the elements of the set of the operation f that are equal to its arguments
StoredFor(m, f) == {a \in SetOf(m, f.tag) : EqualElt(a, f)}

\* the element whose copy a call returns
ReturnedElt(m, f) == {a \in Allocated(m) : a.id = f.pElt}

\* C21 as stated: a call for a domain (a name and a domain) that has a stored
\* element returns the contents of that element
C21_ReturnsStoredCopy ==
    [][\A t \in Threads :
          MetadataReturns(t) =>
             LET f == Top(t)
                 g == stack'[t][Len(stack'[t])]
             IN \A a \in StoredFor(members[f.proxy], f) :
                   \A r \in ReturnedElt(members'[f.proxy], g) :
                      r.value = a.value]_vars

\* C21 amended: every call that gets the dataset returns a newly allocated
\* element that holds a copy of what the dataset answers in this call
C21_ReturnsCurrentAnswer ==
    [][\A t \in Threads :
          MetadataReturns(t) =>
             LET f == Top(t)
                 g == stack'[t][Len(stack'[t])]
                 r == ReturnedElt(members'[f.proxy], g)
             IN /\ Cardinality(r) = 1
                /\ r \cap Allocated(members[f.proxy]) = {}
                /\ \A a \in r : a.value = CPLStrdup(g.answer)]_vars

\* C21 happens: a call has returned "v2" for a query whose earlier element
\* held "v1"
C21_Witness ==
    /\ InOp(Main, "end")
    /\ Top(Main).tag \in MetadataOps
    /\ Top(Main).answer = "v2"
    /\ \E a \in members[Top(Main).proxy].freed :
          EqualElt(a, Top(Main)) /\ a.value = CPLStrdup("v1")

\* the elements of a proxy that were returned and not freed
Live(m) == m.metadataSet \cup m.metadataItemSet

\* the domains (names and domains) that a set has an element for
KeysOf(set) == {<< a.pszName, a.pszDomain >> : a \in set}

Unmatched(e) ==
    \A r \in Requests :
       \A responsiblePID \in Threads : ~Matches(pool, e, r, responsiblePID)

\* the entry whose open is in flight on thread t is marked with refCount -1
\* and no lookup matches it
MarkedForOpen(t) ==
    /\ pool.entries[Top(t).e].refCount = -1
    /\ Unmatched(Top(t).e)

\* the entries that still point to the dataset that thread t is closing have
\* no key and no lookup matches them
MarkedForClose(t) ==
    \A e \in Slots :
       pool.entries[e].poDS = Top(t).h =>
          /\ pool.entries[e].pszFileNameAndOpenOptions = NullStr
          /\ Unmatched(e)

ClosingElsewhere(t) ==
    \E u \in Threads \ {t} :
       \E i \in 1 .. Len(stack[u]) : stack[u][i].kind = "close"

CountedList(P) ==
    /\ Len(ListOrder(P)) = P.currentSize
    /\ P.currentSize <= maxSize

\* C31: as long as the pool is not being destroyed, the number of entries in
\* the list equals currentSize, currentSize is at most maxSize, and no step
\* makes currentSize smaller: only the destructor removes entries
C31_CountMatchesList ==
    [][ /\ ~pool.bInDestruction => CountedList(pool)
        /\ ~pool'.bInDestruction =>
               /\ CountedList(pool')
               /\ pool'.currentSize >= pool.currentSize ]_vars

\* a full pool whose last entry was recycled for a dataset that is being
\* opened
C31_Witness ==
    /\ ~pool.bInDestruction
    /\ pool.currentSize = maxSize
    /\ \E t \in Threads : InOpen(t) /\ Top(t).tag = "recycled"

\* the entries of P that were allocated
AllocatedEntries(P) == { e \in DOMAIN P.entries : e <= P.currentSize }

\* the walk from firstEntry by next, with one step more than there are entries
Chain(P) == Walk(P, P.firstEntry, Len(P.entries) + 1)

\* the list of P is a well-formed doubly-linked list of its allocated entries
WellFormed(P) ==
    LET L == Chain(P)
    IN /\ { L[i] : i \in 1 .. Len(L) } = AllocatedEntries(P)
       /\ \A i, j \in 1 .. Len(L) : L[i] = L[j] => i = j
       /\ (P.firstEntry = NULL) = (P.currentSize = 0)
       /\ (P.lastEntry = NULL) = (P.currentSize = 0)
       /\ L # << >> => L[1] = P.firstEntry /\ L[Len(L)] = P.lastEntry
       /\ \A e \in AllocatedEntries(P) :
             LET E == P.entries[e]
             IN /\ (E.prev = NULL) = (e = P.firstEntry)
                /\ (E.next = NULL) = (e = P.lastEntry)
                /\ E.prev # NULL => P.entries[E.prev].next = e
                /\ E.next # NULL => P.entries[E.next].prev = e

\* C32: in every state the list is a well-formed doubly-linked list: only the
\* first entry has no prev, only the last has no next, neighbours point at
\* each other, and the walk from firstEntry visits every entry once and ends
\* at lastEntry
C32_ListWellFormed == WellFormed(pool)

\* three entries were prepended (order 3, 2, 1) and the middle one, entry 2,
\* was moved to the front since, the tail still being entry 1
C32_Witness ==
    /\ Len(pool.entries) = MaxList
    /\ Chain(pool) = << 2, 3, 1 >>

\* in this step GDALClose, called for an entry that is not recycled (RAM loop
\* or _CloseDatasetIfZeroRefCount), returns to thread t
EndsCloseInPlace(t) ==
    /\ InClose(t)
    /\ Top(t).tag \in {"ram", "idle"}
    /\ stack'[t] # stack[t]
    /\ Len(stack'[t]) <= Len(stack[t])

StartsCloseInPlace(t) == StartsClose(t, "ram") \/ StartsClose(t, "idle")

\* the entries whose dataset thread t starts or ends closing in this step,
\* and the entry whose Open returns to t in this step
ClosedInPlace(t) ==
    (IF StartsCloseInPlace(t) THEN {TopOf(stack', t).e} ELSE {})
        \cup (IF EndsCloseInPlace(t) THEN {Top(t).e} ELSE {})

OpenedNow(t) == IF InOpen(t) THEN {Top(t).e} ELSE {}

\* C33: a step that closes the dataset of an entry for RAM or by
\* CloseDatasetIfZeroRefCount leaves the list as it is: same currentSize, same
\* order, same prev and next everywhere; of the closed entry only poDS, key,
\* owner and nRAMUsage change (all four are cleared once GDALClose returned),
\* and no other entry changes but the one whose Open just returned
C33_CloseInPlaceKeepsList ==
    [][ \A t \in Threads :
            StartsCloseInPlace(t) \/ EndsCloseInPlace(t) =>
                /\ pool'.currentSize = pool.currentSize
                /\ ListOrder(pool') = ListOrder(pool)
                /\ \A x \in Slots :
                      LET E == pool.entries[x]
                          F == pool'.entries[x]
                      IN /\ F.prev = E.prev /\ F.next = E.next
                         /\ x \notin OpenedNow(t) =>
                                /\ F.refCount = E.refCount
                                /\ F.responsiblePID = E.responsiblePID
                         /\ x \notin ClosedInPlace(t) \cup OpenedNow(t) =>
                                F = E
                /\ EndsCloseInPlace(t) =>
                      LET F == pool'.entries[Top(t).e]
                      IN /\ F.poDS = NULL
                         /\ F.pszFileNameAndOpenOptions = NullStr
                         /\ F.pszOwner = NullStr
                         /\ F.nRAMUsage = 0 ]_vars

\* a dataset is being closed for RAM while its entry stays the last of a
\* list of two
C33_Witness ==
    \E t \in Threads :
        /\ InClose(t) /\ Top(t).tag = "ram"
        /\ Top(t).e = pool.lastEntry
        /\ Top(t).e # pool.firstEntry
        /\ pool.entries[Top(t).e].poDS # NULL

\* C34: the pool does not cache an open failure: a call of
\* RefUnderlyingDataset with bForceOpen true is never answered by a lookup hit
\* on an entry without dataset (the slot a failed Open left behind); it is
\* answered by an entry with a dataset or GDALDataset::Open is called again
C34_FailureNotCached ==
    [][ \A t \in Threads :
            /\ Calls(t)
            /\ TopOf(stack', t).tag = "hit"
            /\ TopOf(stack', t).req.bForceOpen
            => pool.entries[TopOf(stack', t).e].poDS # NULL ]_vars

\* C36: an entry that _RefDataset returned for a request with bShared false
\* is held by that caller alone: as long as the caller has it and has not
\* released it, no other call is answered with the entry, so its refCount
\* is 1
C36_UnsharedHeldExclusively ==
    \A t \in Threads : \A i \in 1 .. Len(stack[t]) :
        LET f == stack[t][i]
        IN /\ f.kind = "ret"
           /\ f.tag \in {"hit", "opened"}
           /\ ~f.req.bShared
           => pool.entries[f.e].refCount <= 1

\* C38: the key is injective: two requests match the same entry only if
\* their file names are equal and their open options are equal, element by
\* element
C38_KeyInjective ==
    \A r1, r2 \in KeyRequests : \A e \in ListSlots :
        /\ Matches(pool, e, r1, r1.responsiblePID)
        /\ Matches(pool, e, r2, r2.responsiblePID)
        => /\ r1.pszFileName = r2.pszFileName
           /\ r1.papszOpenOptions = r2.papszOpenOptions

\* the entry that the call ListRefDataset(r) of this step returns, NULL if it
\* returns nullptr
ListReturned(r) ==
    LET m == FirstSuch(Walk(pool, pool.firstEntry, MaxList + 1),
                       { cur \in ListSlots :
                            Matches(pool, cur, r, r.responsiblePID) })
    IN IF m # NULL THEN m
       ELSE IF pool' # pool THEN pool'.firstEntry
       ELSE NULL

\* C37: the dataset of the entry that _RefDataset returns was opened with the
\* access of the request: with GDAL_OF_UPDATE for GA_Update, with
\* GDAL_OF_READONLY for GA_ReadOnly
C37_HandleHasRequestedAccess ==
    [][ \A r \in AccessRequests :
            /\ ListRefDataset(r)
            /\ ListReturned(r) # NULL
            /\ pool'.entries[ListReturned(r)].poDS # NULL
            => ds'[pool'.entries[ListReturned(r)].poDS].nOpenFlags
                   = OpenFlag(r.eAccess) ]_vars

\* C35: when a proxy is used by two threads, the release of a call
\* decrements the entry that the acquisition of that call incremented
C35_ReleaseMatchesAcquire ==
    [][ \A t \in Threads : \A e \in Slots :
            held'[t][e] = held[t][e] - 1 =>
                pool'.entries[e].refCount = pool.entries[e].refCount - 1 ]_vars

\* C39: GDALClose is called at most once for a dataset that the pool opened,
\* also when the close of a dataset calls back into the pool
C39_ClosedAtMostOnce ==
    \A h \in Handles : ds[h].state # "closed twice"

\* the constructed proxies whose constructor incremented the refCount
CountedProxies == { p \in Proxies : members[p].constructed /\ members[p].counted }

====
